---- MODULE Spec2Model ----
(***************************************************************************)
(* Ingestion and retrieval pipeline of chatpdf-project.                    *)
(*                                                                         *)
(*   loadS3IntoPinecone, getEmbeddings, getMatchesFromEmbeddings and       *)
(*   getContext are the revision of lib/pinecone kept in                   *)
(*   src/unnamed/part_002; the pdf-processor module it imports is          *)
(*   src/src/lib/pdf-processor.ts; downloadFromS3 is                       *)
(*   src/src/lib/s3-server.ts.                                             *)
(*                                                                         *)
(*   Spec         one ingestion run after another (loadS3IntoPinecone)     *)
(*   SpecSplit    the loop of splitText                                    *)
(*   SpecContext  getContext over namespaces left by ingestion             *)
(*   SpecExtract  the text extraction strategies                           *)
(*   SpecTemp     temporary files of concurrent ingestion runs             *)
(*   SpecClient   getPineconeClient called by concurrent requests          *)
(*   SpecChunk    chunkDocuments, prepareDocument, splitTextIntoChunks     *)
(*                                                                         *)
(* Representation.  A chunk text is a token (a natural number); the text   *)
(* it stands for is Chars(token), CHUNK_SIZE characters long.  A page of a *)
(* PDF is the sequence of the chunk tokens its text is cut into, the empty *)
(* sequence being a page without text.  A file key is a sequence of        *)
(* characters.  Scores are in hundredths (75 is 0.75).                     *)
(***************************************************************************)
EXTENDS Integers, Sequences, FiniteSets, TLC

\* ---------------------------------------------------------------- bounds
MaxRuns       == 2   \* ingestion runs started in one behaviour
MaxPages      == 1   \* pages of a small PDF
MaxContent    == 1   \* distinct chunk texts of small PDFs
BigDoc        == 250 \* chunks of the one-page large PDF
MaxMatches    == 3   \* matches answered by one vector-store query
MaxStored     == 3   \* records a queried namespace holds
MaxTextLen    == 3   \* characters of a text given to splitText
MaxChunkSize  == 3   \* chunkSize (besides the default) given to splitText
MaxIter       == 4   \* iterations of the splitText loop that are followed
MaxExtractions == 2  \* text extractions started in one behaviour
MaxConcurrent == 2   \* ingestion runs in flight at once
MaxClock      == 1   \* last value of Date.now()
MaxCallers    == 3   \* requests calling getPineconeClient at once
MaxInstances  == 3   \* vector-store clients constructed in one behaviour
MaxChunkText  == 7   \* characters of a text given to a chunker
MaxWindow     == 6   \* largest scaled chunk size given to a chunker
LongLen       == 1202 \* characters of a long text given to a chunker
MaxTruncLen   == 3   \* code points of a string given to truncateStringByBytes
MaxBytes      == 5   \* largest byte budget given to truncateStringByBytes
MaxFiles      == 2   \* files uploaded in one behaviour
MaxChats      == 2   \* chat rows created in one behaviour
\* pages of the PDFs loadPDF is given
MaxLoadPages == 4
\* the clock of the rate limiter runs to MaxRateTicks steps of 30 seconds
MaxRateTicks == 3
\* maxSize of the cache and the steps its clock runs to
MaxCacheSize == 3
MaxCacheClock == 2
\* chunks the upstream stream delivers in one chat turn
MaxStreamChunks == 4

\* ------------------------------------------------------ program constants
BATCH_SIZE              == 100
CHUNK_SIZE              == 1000
CHUNK_OVERLAP           == 200
CONTEXT_SCORE_THRESHOLD == 75
CONTEXT_MAX_CHARS       == 3000
TOP_K                   == 5

Min(a, b) == IF a < b THEN a ELSE b
Max(a, b) == IF a > b THEN a ELSE b

\* ------------------------------------------------------------- file keys
\* "U+00E9" and "U+00FC" are the characters e-acute and u-umlaut
Keys == { <<"u", "/", "a">>, <<"U+00E9", "/", "a">>, <<"U+00FC", "/", "a">> }

AsciiChars == {"u", "v", "a", "b", "/", "_", "."}

\* validation.ts:269-273: every non-ASCII character becomes "_"
convertToAscii(inputString) ==
  [j \in DOMAIN inputString |->
     IF inputString[j] \in AsciiChars THEN inputString[j] ELSE "_"]

Namespaces == { convertToAscii(k) : k \in Keys }

\* path.basename: what follows the last "/"
RECURSIVE basename(_)
basename(p) ==
  IF p = <<>> THEN <<>>
  ELSE IF \E j \in DOMAIN p : p[j] = "/"
       THEN basename(Tail(p))
       ELSE p

\* s3-server.ts:29-31: path.join(os.tmpdir(), path.basename(file_key))
tempFilePath(file_key) == <<"tmpdir">> \o basename(file_key)

NoFile == <<>>

\* ingestion runs that may be in flight at once
Runs == 1..MaxConcurrent

\* ingestion and query requests that may call getPineconeClient at once
Callers == 1..MaxCallers

\* -------------------------------------------------------------- documents
Contents == 1..MaxContent

\* a small page has no text or a text of one window (CHUNK_SIZE characters)
SmallPages == { <<>> } \cup { <<c>> : c \in Contents }

BigPage == [j \in 1..BigDoc |-> j]

\* the PDFs a run may be given: every small one, and one large one
\* a PDF of two pages with the same text
TwinPages == << <<1>>, <<1>> >>

PDFs ==
  (UNION { [1..n -> SmallPages] : n \in 1..MaxPages })
    \cup { <<BigPage>>, TwinPages }

\* pdf-processor.ts:93-95 (md5 of the content)
createDocumentHash(content) == <<"md5", content>>

\* the embedding the service answers for a text
Embedding(content) == <<"emb", content>>

\* pdf-processor.ts:77-91: one document per chunk of the page
prepareDocument(page, pageNumber) ==
  [j \in DOMAIN page |->
     [pageContent |-> page[j],
      metadata    |-> [pageNumber |-> pageNumber, text |-> page[j]]]]

\* Array.prototype.flat over the per-page lists
RECURSIVE Flat(_)
Flat(lists) ==
  IF lists = <<>> THEN <<>> ELSE Head(lists) \o Flat(Tail(lists))

\* part_002:51
PreparedDocuments(pgs) ==
  Flat([n \in DOMAIN pgs |-> prepareDocument(pgs[n], n)])

\* part_002:65-75: the vector pushed for a document
VectorOf(doc) ==
  [id       |-> createDocumentHash(doc.pageContent),
   values   |-> Embedding(doc.pageContent),
   metadata |-> [text |-> doc.metadata.text,
                 pageNumber |-> doc.metadata.pageNumber]]

\* the slice taken one record too long: vectors.slice(i, i + BATCH_SIZE + 1)
BatchAtOverlong(vs, i) == SubSeq(vs, i + 1, Min(i + BATCH_SIZE + 1, Len(vs)))

\* part_002:96: vectors.slice(i, i + BATCH_SIZE)
BatchAt(vs, i) == SubSeq(vs, i + 1, Min(i + BATCH_SIZE, Len(vs)))

\* the vector store's upsert: a record replaces the stored record of the
\* same id; of the records of one batch with the same id the last one stays
UpsertInto(stored, batch) ==
  { r \in stored : \A j \in DOMAIN batch : batch[j].id # r.id }
  \cup { batch[j] : j \in { m \in DOMAIN batch :
                            \A l \in DOMAIN batch :
                               batch[l].id = batch[m].id => l <= m } }

VARIABLES
  pc,          \* position of the ingestion run
  runs,        \* ingestion runs started so far
  fileKey,     \* argument of the run
  file_name,   \* temporary file of the run, NoFile before the download
  disk,        \* temporary files that exist
  pages,       \* result of loadPDF
  documents,   \* chunks of the run
  vectors,     \* vectors built so far
  i,           \* offset of the next batch
  pinecone,    \* module-level client: "null" or "client"
  store,       \* namespace -> set of vector records
  calls,       \* vector-store calls issued by the run, in order
  error        \* error the run threw: [origin |-> stage]

pipeVars == <<pc, runs, fileKey, file_name, disk, pages, documents, vectors,
              i, pinecone, store, calls, error>>

VARIABLES
  s_pc,        \* splitText: "off", "called", "loop" or "returned"
  s_variant,   \* revision of splitText that runs
  s_text,      \* its argument text
  s_chunkSize, \* its argument chunkSize
  s_overlap,   \* its argument overlap
  s_start,     \* its local start
  s_chunks,    \* its local chunks
  s_iter       \* loop iterations done

splitVars == <<s_pc, s_variant, s_text, s_chunkSize, s_overlap, s_start,
               s_chunks, s_iter>>

VARIABLES
  q_pc,        \* getContext: "idle", "embed", "query", "assemble", "returned"
  q_key,       \* its argument fileKey
  q_matches,   \* matches answered by the vector store
  q_result,    \* the string it returns
  q_caught     \* origin of the error its catch block logged, "none" if none

ctxVars == <<q_pc, q_key, q_matches, q_result, q_caught>>

VARIABLES
  e_pc,        \* text extraction: "idle", "strategy", "returned" or "thrown"
  e_variant,   \* revision of the extraction orchestrator that runs
  e_source,    \* file key the extraction is for
  e_index,     \* strategy that runs (1-based), 0 when none
  e_log,       \* strategies run so far with their outcomes, in order
  e_result,    \* pages the extraction returned
  e_runs       \* extractions started so far

extractVars == <<e_pc, e_variant, e_source, e_index, e_log, e_result, e_runs>>

VARIABLES
  t_variant,   \* revision of downloadFromS3 that runs
  t_clock,     \* Date.now()
  t_pc,        \* run -> "idle", "download", "load", "unlink" or "done"
  t_key,       \* run -> file key it ingests
  t_path,      \* run -> temporary file it downloaded to, NoFile before
  t_disk,      \* temporary files that exist: [path, writer]
  t_read       \* run -> run that wrote the file it parsed, 0 before,
               \*        -1 when the file was gone

tempVars == <<t_variant, t_clock, t_pc, t_key, t_path, t_disk, t_read>>

VARIABLES
  c_variant,   \* revision of getPineconeClient that runs
  c_pinecone,  \* module-level `pinecone`: 0 for null, else the instance
  c_instances, \* vector-store clients constructed so far
  c_pc,        \* caller -> "idle", "awaiting" or "resumed"
  c_got        \* caller -> instance its call resolved to, 0 before

clientVars == <<c_variant, c_pinecone, c_instances, c_pc, c_got>>

VARIABLES
  k_pc,        \* chunker: "off", "called", "loop", "splitText" or "returned"
  k_fn,        \* chunker that runs
  k_text,      \* text of the page it is given
  k_clean,     \* text its loop walks
  k_chunkSize, \* chunkSize / maxChunkSize
  k_overlap,   \* overlap / overlapSize
  k_start,     \* start / currentPosition
  k_chunks,    \* chunks emitted so far
  k_windows    \* for every emitted chunk the window [from, to) it was cut from

chunkVars == <<k_pc, k_fn, k_text, k_clean, k_chunkSize, k_overlap, k_start,
               k_chunks, k_windows>>

VARIABLES
  g_pc,        \* getEmbeddings: "off", "called", "request", "returned", "thrown"
  g_variant,   \* revision of getEmbeddings that runs
  g_text,      \* its argument text
  g_sent,      \* input of the embedding request it sent
  g_result,    \* what it returned: "none" or "vector"
  g_error      \* what it threw, "none" if nothing

embedVars == <<g_pc, g_variant, g_text, g_sent, g_result, g_error>>

VARIABLES
  u_pc,        \* truncateStringByBytes: "off", "called" or "returned"
  u_str,       \* its argument str, a sequence of code points
  u_bytes,     \* its argument bytes
  u_result     \* the string it returned

truncVars == <<u_pc, u_str, u_bytes, u_result>>

VARIABLES
  a_files,     \* uploaded files: [key, owner]
  a_chats,     \* rows of the table chats: [id, userId, fileKey]
  a_messages,  \* rows of the table messages: [chatId, author]
  a_served,    \* contexts retrieved: [user, fileKey]
  a_status     \* status of the last response, 0 before the first

authVars == <<a_files, a_chats, a_messages, a_served, a_status>>

VARIABLES
  l_pc,        \* loadPDF: "idle", "load", "getPage", "getTextContent",
               \* "check", "fallback", "returned" or "thrown"
  l_timer,     \* the 30-second timer: "unset", "armed" or "fired"
  l_numPages,  \* pdf.numPages
  l_i,         \* the page the loop is at
  l_pages,     \* page numbers pushed to pages
  l_error      \* message of the error caught, "" when none

loadVars == <<l_pc, l_timer, l_numPages, l_i, l_pages, l_error>>

VARIABLES
  r_now,       \* Date.now() of the middleware, in ms
  r_ipMap,     \* ipMap: ip -> [count, expires] or NoEntry
  r_last,      \* the last request answered: [ip, status], status 200 or 429
  r_window     \* history: ip -> [opened, admitted] of the ip's latest window

rateVars == <<r_now, r_ipMap, r_last, r_window>>

VARIABLES
  m_cache,     \* Cache.cache: the Map's entries [key, timestamp, ttl] in the
               \* order the Map iterates them
  m_now,       \* Date.now(), in steps of the clock
  m_last       \* the last call: [op, key, before, evicted, value]

cacheVars == <<m_cache, m_now, m_last>>

VARIABLES
  w_upstream,     \* the response body of OpenAI: "none", "open", "ended"
                  \* or "failed"
  w_pc,           \* start() of the readable: "idle", "reading" or "finished"
  w_state,        \* the readable: "none", "readable", "closed" or "errored"
  w_queue,        \* chunks enqueued and not yet piped
  w_accumulated,  \* content chunks appended to accumulated
  w_sink,         \* the WritableStream piped to: "none", "writable",
                  \* "closed" or "aborted"
  w_written,      \* chunks the sink's write() was given
  w_stored        \* assistant messages inserted by the sink's close()

streamVars == <<w_upstream, w_pc, w_state, w_queue, w_accumulated, w_sink,
                w_written, w_stored>>

\* the components besides the pipeline, splitText and getContext
restVars == <<extractVars, tempVars, clientVars, chunkVars, embedVars,
              truncVars, authVars, loadVars, rateVars, cacheVars, streamVars>>

vars == <<pipeVars, splitVars, ctxVars, restVars>>

NoError == [origin |-> "none"]

ns == convertToAscii(fileKey)

PipeInit ==
  /\ pc = "idle"
  /\ runs = 0
  /\ fileKey = <<>>
  /\ file_name = NoFile
  /\ disk = {}
  /\ pages = <<>>
  /\ documents = <<>>
  /\ vectors = <<>>
  /\ i = 0
  /\ pinecone = "null"
  /\ store = [n \in Namespaces |-> {}]
  /\ calls = <<>>
  /\ error = NoError

\* part_002:37-46: a caller starts loadS3IntoPinecone(fileKey)
StartRun(k) ==
  /\ UNCHANGED <<splitVars, ctxVars, restVars>>
  /\ pc = "idle"
  /\ runs < MaxRuns
  /\ runs' = runs + 1
  /\ fileKey' = k
  /\ pc' = "download"
  /\ UNCHANGED <<file_name, disk, pages, documents, vectors, i, pinecone,
                 store, calls, error>>

\* s3-server.ts:7-52: the object is written to the temporary path
DownloadOk ==
  /\ UNCHANGED <<splitVars, ctxVars, restVars>>
  /\ pc = "download"
  /\ file_name' = tempFilePath(fileKey)
  /\ disk' = disk \cup { tempFilePath(fileKey) }
  /\ pc' = "loadpdf"
  /\ UNCHANGED <<runs, fileKey, pages, documents, vectors, i, pinecone,
                 store, calls, error>>

\* s3-server.ts:53-56, pdf-processor.ts:117-120, part_002:101-104
DownloadFail ==
  /\ UNCHANGED <<splitVars, ctxVars, restVars>>
  /\ pc = "download"
  /\ error' = [origin |-> "download"]
  /\ pc' = "thrown"
  /\ UNCHANGED <<runs, fileKey, file_name, disk, pages, documents, vectors,
                 i, pinecone, store, calls>>

\* pdf-processor.ts:7-52, 107: the parser returns the pages
LoadPDFOk(pdf) ==
  /\ UNCHANGED <<splitVars, ctxVars, restVars>>
  /\ pc = "loadpdf"
  /\ pages' = pdf
  /\ pc' = "unlink"
  /\ UNCHANGED <<runs, fileKey, file_name, disk, documents, vectors, i,
                 pinecone, store, calls, error>>

\* pdf-processor.ts:53-56, 117-120: the parser throws; the unlink at
\* lines 110-114 is skipped
LoadPDFFail ==
  /\ UNCHANGED <<splitVars, ctxVars, restVars>>
  /\ pc = "loadpdf"
  /\ error' = [origin |-> "loadpdf"]
  /\ pc' = "thrown"
  /\ UNCHANGED <<runs, fileKey, file_name, disk, pages, documents, vectors,
                 i, pinecone, store, calls>>

\* pdf-processor.ts:109-116: unlinkSync, a failure is only logged
Unlink(ok) ==
  /\ UNCHANGED <<splitVars, ctxVars, restVars>>
  /\ pc = "unlink"
  /\ disk' = IF ok THEN disk \ { file_name } ELSE disk
  /\ pc' = "prepare"
  /\ UNCHANGED <<runs, fileKey, file_name, pages, documents, vectors, i,
                 pinecone, store, calls, error>>

\* the namespace reset moved before the embedding loop
PrepareDocumentsAfterReset ==
  /\ pc = "prepare"
  /\ documents' = PreparedDocuments(pages)
  /\ vectors' = <<>>
  /\ calls' = Append(calls, [op |-> "deleteAll", ok |-> TRUE, batch |-> <<>>])
  /\ store' = [store EXCEPT ![ns] = {}]
  /\ pc' = "embed"
  /\ UNCHANGED <<runs, fileKey, file_name, disk, pages, i, pinecone, error>>
  /\ UNCHANGED <<splitVars, ctxVars, restVars>>

\* part_002:51-62
PrepareDocuments ==
  /\ UNCHANGED <<splitVars, ctxVars, restVars>>
  /\ pc = "prepare"
  /\ documents' = PreparedDocuments(pages)
  /\ vectors' = <<>>
  /\ pc' = "embed"
  /\ UNCHANGED <<runs, fileKey, file_name, disk, pages, i, pinecone, store,
                 calls, error>>

\* part_002:64-76, one iteration whose getEmbeddings call answers
EmbedOk ==
  /\ UNCHANGED <<splitVars, ctxVars, restVars>>
  /\ pc = "embed"
  /\ Len(vectors) < Len(documents)
  /\ vectors' = Append(vectors, VectorOf(documents[Len(vectors) + 1]))
  /\ UNCHANGED <<pc, runs, fileKey, file_name, disk, pages, documents, i,
                 pinecone, store, calls, error>>

\* part_002:65, 123-126, 101-104: getEmbeddings throws, the run rethrows
EmbedFail ==
  /\ UNCHANGED <<splitVars, ctxVars, restVars>>
  /\ pc = "embed"
  /\ Len(vectors) < Len(documents)
  /\ error' = [origin |-> "embedding"]
  /\ pc' = "thrown"
  /\ UNCHANGED <<runs, fileKey, file_name, disk, pages, documents, vectors,
                 i, pinecone, store, calls>>

\* part_002:28-35, 82-84
GetPineconeClient ==
  /\ UNCHANGED <<splitVars, ctxVars, restVars>>
  /\ pc = "embed"
  /\ Len(vectors) = Len(documents)
  /\ pinecone' = "client"
  /\ pc' = "deleteAll"
  /\ UNCHANGED <<runs, fileKey, file_name, disk, pages, documents, vectors,
                 i, store, calls, error>>

\* the reset left out: no deleteAll call is issued before the loop
DeleteAllOmitted(ok) ==
  /\ pc = "deleteAll"
  /\ i' = 0
  /\ pc' = "upsert"
  /\ UNCHANGED <<runs, fileKey, file_name, disk, pages, documents, vectors,
                 pinecone, store, calls, error>>
  /\ UNCHANGED <<splitVars, ctxVars, restVars>>

\* the try/catch around deleteAll left out: its failure fails the run
DeleteAllFatal(ok) ==
  /\ pc = "deleteAll"
  /\ calls' = Append(calls, [op |-> "deleteAll", ok |-> ok, batch |-> <<>>])
  /\ store' = IF ok THEN [store EXCEPT ![ns] = {}] ELSE store
  /\ i' = 0
  /\ pc' = IF ok THEN "upsert" ELSE "thrown"
  /\ error' = IF ok THEN error ELSE [origin |-> "deleteAll"]
  /\ UNCHANGED <<runs, fileKey, file_name, disk, pages, documents, vectors,
                 pinecone>>
  /\ UNCHANGED <<splitVars, ctxVars, restVars>>

\* part_002:86-95: deleteAll, a failure is swallowed
DeleteAll(ok) ==
  /\ UNCHANGED <<splitVars, ctxVars, restVars>>
  /\ pc = "deleteAll"
  /\ calls' = Append(calls, [op |-> "deleteAll", ok |-> ok, batch |-> <<>>])
  /\ store' = IF ok THEN [store EXCEPT ![ns] = {}] ELSE store
  /\ i' = 0
  /\ pc' = "upsert"
  /\ UNCHANGED <<runs, fileKey, file_name, disk, pages, documents, vectors,
                 pinecone, error>>

\* part_002:95-98, one iteration whose upsert call succeeds
UpsertOk ==
  /\ UNCHANGED <<splitVars, ctxVars, restVars>>
  /\ pc = "upsert"
  /\ i < Len(vectors)
  /\ calls' = Append(calls, [op |-> "upsert", ok |-> TRUE,
                            batch |-> BatchAt(vectors, i)])
  /\ store' = [store EXCEPT ![ns] = UpsertInto(@, BatchAt(vectors, i))]
  /\ i' = i + BATCH_SIZE
  /\ UNCHANGED <<pc, runs, fileKey, file_name, disk, pages, documents,
                 vectors, pinecone, error>>

\* part_002:97, 101-104: the upsert call throws, the run rethrows the error
UpsertFail ==
  /\ UNCHANGED <<splitVars, ctxVars, restVars>>
  /\ pc = "upsert"
  /\ i < Len(vectors)
  /\ calls' = Append(calls, [op |-> "upsert", ok |-> FALSE,
                            batch |-> BatchAt(vectors, i)])
  /\ error' = [origin |-> "upsert"]
  /\ pc' = "thrown"
  /\ UNCHANGED <<runs, fileKey, file_name, disk, pages, documents, vectors,
                 i, pinecone, store>>

\* part_002:95, 100: the loop is over, documents are returned
Return ==
  /\ UNCHANGED <<splitVars, ctxVars, restVars>>
  /\ pc = "upsert"
  /\ i >= Len(vectors)
  /\ pc' = "returned"
  /\ UNCHANGED <<runs, fileKey, file_name, disk, pages, documents, vectors,
                 i, pinecone, store, calls, error>>

\* the caller has the result or the error; the run's locals are gone
Finish ==
  /\ UNCHANGED <<splitVars, ctxVars, restVars>>
  /\ pc \in {"returned", "thrown"}
  /\ pc' = "idle"
  /\ fileKey' = <<>>
  /\ file_name' = NoFile
  /\ pages' = <<>>
  /\ documents' = <<>>
  /\ vectors' = <<>>
  /\ i' = 0
  /\ calls' = <<>>
  /\ error' = NoError
  /\ UNCHANGED <<runs, disk, pinecone, store>>

SplitOff ==
  /\ s_pc = "off"
  /\ s_variant = "pdf-processor"
  /\ s_text = <<>>
  /\ s_chunkSize = CHUNK_SIZE
  /\ s_overlap = CHUNK_OVERLAP
  /\ s_start = 0
  /\ s_chunks = <<>>
  /\ s_iter = 0

ContextIdle ==
  /\ q_pc = "idle"
  /\ q_key = <<>>
  /\ q_matches = <<>>
  /\ q_result = <<>>
  /\ q_caught = "none"

ExtractIdle ==
  /\ e_pc = "idle"
  /\ e_variant = "test-utils"
  /\ e_source = <<>>
  /\ e_index = 0
  /\ e_log = <<>>
  /\ e_result = <<>>
  /\ e_runs = 0

TempIdle ==
  /\ t_variant = "s3-server"
  /\ t_clock = 0
  /\ t_pc = [r \in Runs |-> "idle"]
  /\ t_key = [r \in Runs |-> <<>>]
  /\ t_path = [r \in Runs |-> NoFile]
  /\ t_disk = {}
  /\ t_read = [r \in Runs |-> 0]

ClientIdle ==
  /\ c_variant = "part_002"
  /\ c_pinecone = 0
  /\ c_instances = 0
  /\ c_pc = [c \in Callers |-> "idle"]
  /\ c_got = [c \in Callers |-> 0]

ChunkOff ==
  /\ k_pc = "off"
  /\ k_fn = "chunkDocuments"
  /\ k_text = <<>>
  /\ k_clean = <<>>
  /\ k_chunkSize = CHUNK_SIZE
  /\ k_overlap = CHUNK_OVERLAP
  /\ k_start = 0
  /\ k_chunks = <<>>
  /\ k_windows = <<>>

EmbedOff ==
  /\ g_pc = "off"
  /\ g_variant = "part_002"
  /\ g_text = <<>>
  /\ g_sent = <<>>
  /\ g_result = "none"
  /\ g_error = "none"

TruncOff ==
  /\ u_pc = "off"
  /\ u_str = <<>>
  /\ u_bytes = 0
  /\ u_result = <<>>

AuthIdle ==
  /\ a_files = {}
  /\ a_chats = {}
  /\ a_messages = {}
  /\ a_served = {}
  /\ a_status = 0

LoadIdle ==
  /\ l_pc = "idle"
  /\ l_timer = "unset"
  /\ l_numPages = 0
  /\ l_i = 0
  /\ l_pages = <<>>
  /\ l_error = ""

RateIps == {"1.1.1.1", "2.2.2.2"}

NoEntry == [count |-> 0, expires |-> -1]

NoWindow == [opened |-> -1, admitted |-> 0]

RateIdle ==
  /\ r_now = 0
  /\ r_ipMap = [p \in RateIps |-> NoEntry]
  /\ r_last = [ip |-> "none", status |-> 0]
  /\ r_window = [p \in RateIps |-> NoWindow]

CacheIdle ==
  /\ m_cache = <<>>
  /\ m_now = 0
  /\ m_last = [op |-> "none", key |-> "", before |-> <<>>, evicted |-> <<>>,
               value |-> FALSE]

StreamIdle ==
  /\ w_upstream = "none"
  /\ w_pc = "idle"
  /\ w_state = "none"
  /\ w_queue = 0
  /\ w_accumulated = 0
  /\ w_sink = "none"
  /\ w_written = 0
  /\ w_stored = 0

RestIdle ==
  /\ ExtractIdle /\ TempIdle /\ ClientIdle /\ ChunkOff
  /\ EmbedOff
  /\ TruncOff
  /\ AuthIdle
  /\ LoadIdle
  /\ RateIdle
  /\ CacheIdle
  /\ StreamIdle

Init == PipeInit /\ SplitOff /\ ContextIdle /\ RestIdle

Next ==
  \/ \E k \in Keys : StartRun(k)
  \/ DownloadOk
  \/ DownloadFail
  \/ \E pdf \in PDFs : LoadPDFOk(pdf)
  \/ LoadPDFFail
  \/ \E ok \in BOOLEAN : Unlink(ok)
  \/ PrepareDocuments
  \/ EmbedOk
  \/ EmbedFail
  \/ GetPineconeClient
  \/ \E ok \in BOOLEAN : DeleteAll(ok)
  \/ UpsertOk
  \/ UpsertFail
  \/ Return
  \/ Finish

Spec == Init /\ [][Next]_vars

\* ================================================================ splitText
\* pdf-processor.ts:60-75 and its later revision test-utils.ts:960-988

Texts == UNION { [1..n -> {"a", " "}] : n \in 0..MaxTextLen }

SplitParams ==
  { <<cs, ov>> : cs \in 1..MaxChunkSize, ov \in 0..(MaxChunkSize - 1) }
  \cup { <<CHUNK_SIZE, CHUNK_OVERLAP>> }

\* String.prototype.slice(start, end): a negative index counts from the end
JsSlice(str, from, to) ==
  LET len == Len(str)
      b == IF from < 0 THEN Max(len + from, 0) ELSE Min(from, len)
      e == IF to < 0 THEN Max(len + to, 0) ELSE Min(to, len)
  IN  IF b >= e THEN <<>> ELSE SubSeq(str, b + 1, e)

\* str.trim().length === 0
IsBlank(str) == \A j \in DOMAIN str : str[j] = " "

SplitInit ==
  /\ s_pc = "called"
  /\ s_variant \in {"pdf-processor", "test-utils"}
  /\ s_text \in Texts
  /\ \E p \in SplitParams :
       /\ p[2] < p[1]
       /\ s_chunkSize = p[1]
       /\ s_overlap = p[2]
  /\ s_start = 0
  /\ s_chunks = <<>>
  /\ s_iter = 0

\* pdf-processor.ts:65-66; test-utils.ts:965-970 returns [] for a blank text
SplitEnter ==
  /\ s_pc = "called"
  /\ s_pc' = IF s_variant = "test-utils" /\ IsBlank(s_text)
             THEN "returned" ELSE "loop"
  /\ UNCHANGED <<s_variant, s_text, s_chunkSize, s_overlap, s_start,
                 s_chunks, s_iter>>
  /\ UNCHANGED <<pipeVars, ctxVars, restVars>>

\* pdf-processor.ts:68-72; test-utils.ts:972-985: one iteration of the loop
SplitStep ==
  /\ s_pc = "loop"
  /\ s_start < Len(s_text)
  /\ s_iter < MaxIter
  /\ LET end   == Min(s_start + s_chunkSize, Len(s_text))
         chunk == JsSlice(s_text, s_start, end)
     IN  /\ s_chunks' = IF s_variant = "test-utils" /\ IsBlank(chunk)
                        THEN s_chunks ELSE Append(s_chunks, chunk)
         /\ s_start' = end - s_overlap
         /\ s_pc' = IF s_variant = "test-utils" /\ end - s_overlap >= Len(s_text)
                    THEN "returned" ELSE "loop"
  /\ s_iter' = s_iter + 1
  /\ UNCHANGED <<s_variant, s_text, s_chunkSize, s_overlap>>
  /\ UNCHANGED <<pipeVars, ctxVars, restVars>>

\* pdf-processor.ts:68, 74: the loop condition fails, chunks are returned
SplitReturn ==
  /\ s_pc = "loop"
  /\ s_start >= Len(s_text)
  /\ s_pc' = "returned"
  /\ UNCHANGED <<s_variant, s_text, s_chunkSize, s_overlap, s_start,
                 s_chunks, s_iter>>
  /\ UNCHANGED <<pipeVars, ctxVars, restVars>>

NextSplit == SplitEnter \/ SplitStep \/ SplitReturn

InitSplit == PipeInit /\ SplitInit /\ ContextIdle /\ RestIdle

SpecSplit == InitSplit /\ [][NextSplit]_vars

\* ================================================================ getContext
\* part_002:107-185

\* the characters of the text a chunk token stands for
Chars(content) == [j \in 1..CHUNK_SIZE |-> ToString(content)]

Separator == <<"\n", "-", "-", "-", "\n">>

\* a match carries a score or none (part_002:166 reads "m.score ?? 0");
\* scores in hundredths: below the threshold, at it and above it
ScoreValues == {74, 75, 90}

MatchesOf(stored) ==
  { [metadata |-> r.metadata] : r \in stored }
  \cup { [score |-> sc, metadata |-> r.metadata] :
           sc \in ScoreValues, r \in stored }

\* the answers a query of a namespace may get: up to MaxMatches (and topK) of
\* its records, each record at most once, in any order and with any scores
QueryAnswers(stored) ==
  { ms \in UNION { [1..n -> MatchesOf(stored)] : n \in 0..Min(MaxMatches, TOP_K) } :
      \A a, b \in DOMAIN ms : a # b => ms[a].metadata # ms[b].metadata }

ScoreOf(m) == IF "score" \in DOMAIN m THEN m.score ELSE 0

\* the comparison made strict: a score of exactly 0.75 is dropped
QualifyingStrict(matches) ==
  SelectSeq(matches, LAMBDA m : ScoreOf(m) > CONTEXT_SCORE_THRESHOLD)

\* part_002:165-167
Qualifying(matches) ==
  SelectSeq(matches, LAMBDA m : ScoreOf(m) >= CONTEXT_SCORE_THRESHOLD)

\* arr.indexOf(text) === idx
IsFirstOccurrence(arr, idx) == \A l \in 1..(idx - 1) : arr[l] # arr[idx]

\* part_002:176: the filter keeps the first occurrence of every text
RECURSIVE KeepFirst(_, _)
KeepFirst(arr, idx) ==
  IF idx > Len(arr) THEN <<>>
  ELSE (IF IsFirstOccurrence(arr, idx) THEN <<arr[idx]>> ELSE <<>>)
       \o KeepFirst(arr, idx + 1)

\* Array.prototype.join
RECURSIVE Join(_, _)
Join(strs, sep) ==
  IF strs = <<>> THEN <<>>
  ELSE IF Len(strs) = 1 THEN Head(strs)
  ELSE Head(strs) \o sep \o Join(Tail(strs), sep)

\* the cap left out: the joined context is returned whole
CapContextMissing(context) == context

\* part_002:180: context.slice(0, 3000)
CapContext(context) == JsSlice(context, 0, CONTEXT_MAX_CHARS)

\* part_002:165-180
ContextOf(matches) ==
  LET qualifying == Qualifying(matches)
      texts == [j \in DOMAIN qualifying |-> qualifying[j].metadata.text]
      kept == KeepFirst(texts, 1)
  IN  IF Len(qualifying) = 0 THEN <<>>
      ELSE CapContext(Join([j \in DOMAIN kept |-> Chars(kept[j])], Separator))

\* what ingestion runs may have left in a namespace: the records of the
\* chunks 1..n of a one-page document
StoredSets ==
  { { VectorOf(prepareDocument(<<c>>, 1)[1]) : c \in 1..n } : n \in 0..MaxStored }

\* what the revision of pinecone.ts leaves in the namespace two file keys
\* share: pinecone.ts:69 makes the id of the file key and the hash of the
\* content, so the records of a text both files hold are two, next to the
\* record of a text only one of them holds
SharedStored ==
  { [id       |-> <<<<"U+00E9", "/", "a">>, createDocumentHash(1)>>,
     values   |-> Embedding(1),
     metadata |-> [text |-> 1, pageNumber |-> 1]],
    [id       |-> <<<<"U+00FC", "/", "a">>, createDocumentHash(1)>>,
     values   |-> Embedding(1),
     metadata |-> [text |-> 1, pageNumber |-> 2]],
    [id       |-> <<<<"U+00FC", "/", "a">>, createDocumentHash(2)>>,
     values   |-> Embedding(2),
     metadata |-> [text |-> 2, pageNumber |-> 1]] }

ContextInit ==
  /\ q_pc = "idle"
  /\ q_key = <<>>
  /\ q_matches = <<>>
  /\ q_result = <<>>
  /\ q_caught = "none"

\* part_002:149-154: a caller starts getContext(query, fileKey)
GetContext(k) ==
  /\ q_pc = "idle"
  /\ q_key' = k
  /\ q_matches' = <<>>
  /\ q_result' = <<>>
  /\ q_caught' = "none"
  /\ q_pc' = "embed"
  /\ UNCHANGED <<pipeVars, splitVars, restVars>>

\* part_002:154: getEmbeddings(query) answers
QueryEmbedOk ==
  /\ q_pc = "embed"
  /\ q_pc' = "query"
  /\ UNCHANGED <<q_key, q_matches, q_result, q_caught>>
  /\ UNCHANGED <<pipeVars, splitVars, restVars>>

\* part_002:123-126, 181-184: getEmbeddings throws, getContext returns ""
QueryEmbedFail ==
  /\ q_pc = "embed"
  /\ q_caught' = "embedding"
  /\ q_result' = <<>>
  /\ q_pc' = "returned"
  /\ UNCHANGED <<q_key, q_matches>>
  /\ UNCHANGED <<pipeVars, splitVars, restVars>>

\* part_002:129-142, 159: the namespace's query answers its matches
MatchesOk ==
  /\ q_pc = "query"
  /\ \E ms \in QueryAnswers(store[convertToAscii(q_key)]) : q_matches' = ms
  /\ q_pc' = "assemble"
  /\ UNCHANGED <<q_key, q_result, q_caught>>
  /\ UNCHANGED <<pipeVars, splitVars, restVars>>

\* part_002:143-146, 181-184: the query throws, getContext returns ""
MatchesFail ==
  /\ q_pc = "query"
  /\ q_caught' = "query"
  /\ q_result' = <<>>
  /\ q_pc' = "returned"
  /\ UNCHANGED <<q_key, q_matches>>
  /\ UNCHANGED <<pipeVars, splitVars, restVars>>

\* part_002:164-180
Assemble ==
  /\ q_pc = "assemble"
  /\ q_result' = ContextOf(q_matches)
  /\ q_pc' = "returned"
  /\ UNCHANGED <<q_key, q_matches, q_caught>>
  /\ UNCHANGED <<pipeVars, splitVars, restVars>>

\* the caller has the context
ContextFinish ==
  /\ q_pc = "returned"
  /\ q_pc' = "idle"
  /\ q_key' = <<>>
  /\ q_matches' = <<>>
  /\ q_result' = <<>>
  /\ q_caught' = "none"
  /\ UNCHANGED <<pipeVars, splitVars, restVars>>

NextContext ==
  \/ \E k \in Keys : GetContext(k)
  \/ QueryEmbedOk
  \/ QueryEmbedFail
  \/ MatchesOk
  \/ MatchesFail
  \/ Assemble
  \/ ContextFinish

\* the namespaces hold what earlier ingestion runs left in them: the
\* namespace of one file holds the records of its chunks, the namespace the
\* other two keys share holds the records of both files
ContextStoreInit ==
  /\ pc = "idle"
  /\ runs = 0
  /\ fileKey = <<>>
  /\ file_name = NoFile
  /\ disk = {}
  /\ pages = <<>>
  /\ documents = <<>>
  /\ vectors = <<>>
  /\ i = 0
  /\ pinecone = "client"
  /\ \E stored \in StoredSets :
       store = [n \in Namespaces |->
                  IF n = convertToAscii(<<"u", "/", "a">>) THEN stored
                  ELSE SharedStored]
  /\ calls = <<>>
  /\ error = NoError

InitContext == ContextStoreInit /\ SplitOff /\ ContextInit /\ RestIdle

SpecContext == InitContext /\ [][NextContext]_vars

\* =========================================================== text extraction
\* test-utils.ts:654-680 (extractPDFContent), part_004:100-118 (loadPDF)

\* both revisions try two strategies
NumStrategies == 2

\* test-utils.ts:750-770: the one page the fallback method answers with
FallbackPages == << <<0>> >>

\* what a strategy may return.  test-utils.ts:685-741 returns pages with text
\* only and throws when there is none, test-utils.ts:746-775 returns the
\* fallback page; part_004:15-75 return the pages they parsed
StrategyResults(variant, index) ==
  IF variant = "test-utils"
  THEN IF index = 1
       THEN { pdf \in PDFs : \A j \in DOMAIN pdf : pdf[j] # <<>> }
       ELSE { FallbackPages }
  ELSE PDFs

\* a caller starts the extraction of a downloaded file
ExtractStart(variant, source) ==
  /\ e_pc = "idle"
  /\ e_runs < MaxExtractions
  /\ e_runs' = e_runs + 1
  /\ e_variant' = variant
  /\ e_source' = source
  /\ e_index' = 1
  /\ e_log' = <<>>
  /\ e_result' = <<>>
  /\ e_pc' = "strategy"
  /\ UNCHANGED <<pipeVars, splitVars, ctxVars, tempVars, clientVars,
                 chunkVars, embedVars, truncVars, authVars, loadVars,
                 rateVars, cacheVars, streamVars>>

\* test-utils.ts:666-671, part_004:102-104, 109-111: the strategy returns
StrategyReturns(result) ==
  /\ e_pc = "strategy"
  /\ result \in StrategyResults(e_variant, e_index)
  /\ e_log' = Append(e_log, [index |-> e_index, outcome |-> "returned",
                             result |-> result])
  /\ IF e_variant = "part_004" \/ Len(result) > 0
     THEN /\ e_result' = result
          /\ e_pc' = "returned"
          /\ e_index' = e_index
     ELSE /\ e_result' = e_result
          /\ IF e_index < NumStrategies
             THEN e_index' = e_index + 1 /\ e_pc' = e_pc
             ELSE e_index' = e_index /\ e_pc' = "thrown"
  /\ UNCHANGED <<e_variant, e_source, e_runs>>
  /\ UNCHANGED <<pipeVars, splitVars, ctxVars, tempVars, clientVars,
                 chunkVars, embedVars, truncVars, authVars, loadVars,
                 rateVars, cacheVars, streamVars>>

\* the first failure is raised, no later strategy is tried
StrategyThrowsFatal ==
  /\ e_pc = "strategy"
  /\ e_log' = Append(e_log, [index |-> e_index, outcome |-> "threw",
                             result |-> <<>>])
  /\ e_pc' = "thrown"
  /\ UNCHANGED <<e_variant, e_source, e_index, e_result, e_runs>>
  /\ UNCHANGED <<pipeVars, splitVars, ctxVars, tempVars, clientVars,
                 chunkVars, embedVars, truncVars, authVars, loadVars,
                 rateVars, cacheVars, streamVars>>

\* test-utils.ts:672-677, part_004:104-106, 111-117: the strategy throws
StrategyThrows ==
  /\ e_pc = "strategy"
  /\ e_log' = Append(e_log, [index |-> e_index, outcome |-> "threw",
                             result |-> <<>>])
  /\ IF e_index = NumStrategies
     THEN e_pc' = "thrown" /\ e_index' = e_index
     ELSE e_pc' = e_pc /\ e_index' = e_index + 1
  /\ UNCHANGED <<e_variant, e_source, e_result, e_runs>>
  /\ UNCHANGED <<pipeVars, splitVars, ctxVars, tempVars, clientVars,
                 chunkVars, embedVars, truncVars, authVars, loadVars,
                 rateVars, cacheVars, streamVars>>

\* the caller has the pages or the error
ExtractFinish ==
  /\ e_pc \in {"returned", "thrown"}
  /\ e_pc' = "idle"
  /\ e_source' = <<>>
  /\ e_index' = 0
  /\ e_log' = <<>>
  /\ e_result' = <<>>
  /\ UNCHANGED <<e_variant, e_runs>>
  /\ UNCHANGED <<pipeVars, splitVars, ctxVars, tempVars, clientVars,
                 chunkVars, embedVars, truncVars, authVars, loadVars,
                 rateVars, cacheVars, streamVars>>

NextExtract ==
  \/ \E v \in {"test-utils", "part_004"}, k \in Keys : ExtractStart(v, k)
  \/ \E result \in PDFs \cup {FallbackPages} : StrategyReturns(result)
  \/ StrategyThrows
  \/ ExtractFinish

InitExtract == PipeInit /\ SplitOff /\ ContextIdle /\ RestIdle

SpecExtract == InitExtract /\ [][NextExtract]_vars

\* =================================================== concurrent temporary files
\* s3-server.ts:7-57, part_000:5-31 (downloadFromS3),
\* pdf-processor.ts:97-121 (downloadAndProcessPDF)

\* part_000:22: `./tmp/pdf-${Date.now()}.pdf`
timestampPath(now) == <<"./tmp/pdf-", now, ".pdf">>

\* the path downloadFromS3 writes to
downloadPath(variant, file_key, now) ==
  IF variant = "s3-server" THEN tempFilePath(file_key) ELSE timestampPath(now)

\* the deployment runs one revision of downloadFromS3
TempInit ==
  /\ t_variant \in {"s3-server", "part_000"}
  /\ t_clock = 0
  /\ t_pc = [r \in Runs |-> "idle"]
  /\ t_key = [r \in Runs |-> <<>>]
  /\ t_path = [r \in Runs |-> NoFile]
  /\ t_disk = {}
  /\ t_read = [r \in Runs |-> 0]

\* a millisecond passes
Tick ==
  /\ t_clock < MaxClock
  /\ t_clock' = t_clock + 1
  /\ UNCHANGED <<t_variant, t_pc, t_key, t_path, t_disk, t_read>>
  /\ UNCHANGED <<pipeVars, splitVars, ctxVars, extractVars, clientVars,
                 chunkVars, embedVars, truncVars, authVars, loadVars,
                 rateVars, cacheVars, streamVars>>

\* pdf-processor.ts:97-100: a request starts downloadAndProcessPDF(fileKey)
TempStart(r, k) ==
  /\ t_pc[r] = "idle"
  /\ t_pc' = [t_pc EXCEPT ![r] = "download"]
  /\ t_key' = [t_key EXCEPT ![r] = k]
  /\ t_path' = [t_path EXCEPT ![r] = NoFile]
  /\ t_read' = [t_read EXCEPT ![r] = 0]
  /\ UNCHANGED <<t_variant, t_clock, t_disk>>
  /\ UNCHANGED <<pipeVars, splitVars, ctxVars, extractVars, clientVars,
                 chunkVars, embedVars, truncVars, authVars, loadVars,
                 rateVars, cacheVars, streamVars>>

\* s3-server.ts:29-43, part_000:22-25: the file is written, replacing a file
\* of the same path
TempDownload(r) ==
  /\ t_pc[r] = "download"
  /\ LET p == downloadPath(t_variant, t_key[r], t_clock)
     IN  /\ t_path' = [t_path EXCEPT ![r] = p]
         /\ t_disk' = { f \in t_disk : f.path # p }
                        \cup { [path |-> p, writer |-> r] }
  /\ t_pc' = [t_pc EXCEPT ![r] = "load"]
  /\ UNCHANGED <<t_variant, t_clock, t_key, t_read>>
  /\ UNCHANGED <<pipeVars, splitVars, ctxVars, extractVars, clientVars,
                 chunkVars, embedVars, truncVars, authVars, loadVars,
                 rateVars, cacheVars, streamVars>>

\* pdf-processor.ts:107: loadPDF reads the file at the path; a missing file
\* makes it throw (pdf-processor.ts:117-120), the file is not unlinked then
TempLoad(r) ==
  /\ t_pc[r] = "load"
  /\ IF \E f \in t_disk : f.path = t_path[r]
     THEN /\ t_read' = [t_read EXCEPT ![r] =
                          (CHOOSE f \in t_disk : f.path = t_path[r]).writer]
          /\ t_pc' = [t_pc EXCEPT ![r] = "unlink"]
     ELSE /\ t_read' = [t_read EXCEPT ![r] = -1]
          /\ t_pc' = [t_pc EXCEPT ![r] = "done"]
  /\ UNCHANGED <<t_variant, t_clock, t_key, t_path, t_disk>>
  /\ UNCHANGED <<pipeVars, splitVars, ctxVars, extractVars, clientVars,
                 chunkVars, embedVars, truncVars, authVars, loadVars,
                 rateVars, cacheVars, streamVars>>

\* pdf-processor.ts:110-114: fs.unlinkSync(file_name)
TempUnlink(r) ==
  /\ t_pc[r] = "unlink"
  /\ t_disk' = { f \in t_disk : f.path # t_path[r] }
  /\ t_pc' = [t_pc EXCEPT ![r] = "done"]
  /\ UNCHANGED <<t_variant, t_clock, t_key, t_path, t_read>>
  /\ UNCHANGED <<pipeVars, splitVars, ctxVars, extractVars, clientVars,
                 chunkVars, embedVars, truncVars, authVars, loadVars,
                 rateVars, cacheVars, streamVars>>

\* the request is over
TempFinish(r) ==
  /\ t_pc[r] = "done"
  /\ t_pc' = [t_pc EXCEPT ![r] = "idle"]
  /\ t_key' = [t_key EXCEPT ![r] = <<>>]
  /\ t_path' = [t_path EXCEPT ![r] = NoFile]
  /\ t_read' = [t_read EXCEPT ![r] = 0]
  /\ UNCHANGED <<t_variant, t_clock, t_disk>>
  /\ UNCHANGED <<pipeVars, splitVars, ctxVars, extractVars, clientVars,
                 chunkVars, embedVars, truncVars, authVars, loadVars,
                 rateVars, cacheVars, streamVars>>

NextTemp ==
  \/ Tick
  \/ \E r \in Runs, k \in Keys : TempStart(r, k)
  \/ \E r \in Runs : TempDownload(r)
  \/ \E r \in Runs : TempLoad(r)
  \/ \E r \in Runs : TempUnlink(r)
  \/ \E r \in Runs : TempFinish(r)

InitTemp ==
  /\ PipeInit /\ SplitOff /\ ContextIdle
  /\ ExtractIdle /\ TempInit /\ ClientIdle /\ ChunkOff
  /\ EmbedOff
  /\ TruncOff
  /\ AuthIdle
  /\ LoadIdle
  /\ RateIdle
  /\ CacheIdle
  /\ StreamIdle

SpecTemp == InitTemp /\ [][NextTemp]_vars

\* ======================================================== vector-store client
\* part_002:24-35, pinecone.ts:10-15 (getPineconeClient)

\* the deployment runs one revision of getPineconeClient
ClientInit ==
  /\ c_variant \in {"part_002", "pinecone.ts"}
  /\ c_pinecone = 0
  /\ c_instances = 0
  /\ c_pc = [c \in Callers |-> "idle"]
  /\ c_got = [c \in Callers |-> 0]

\* part_002:26-35: the body has no await, it runs in one turn of the event
\* loop: constructs the client when `pinecone` is null, returns `pinecone`.
\* pinecone.ts:10-15: constructs and returns a client on every call
getPineconeClient(variant, current, instances) ==
  IF variant = "part_002"
  THEN IF current = 0
       THEN [pinecone |-> instances + 1, instances |-> instances + 1,
             client |-> instances + 1]
       ELSE [pinecone |-> current, instances |-> instances,
             client |-> current]
  ELSE [pinecone |-> current, instances |-> instances + 1,
        client |-> instances + 1]

\* part_002:82, 134: a request calls getPineconeClient(); the promise it
\* awaits is resolved with the client
ClientCall(c) ==
  /\ c_pc[c] = "idle"
  /\ c_instances < MaxInstances
  /\ LET r == getPineconeClient(c_variant, c_pinecone, c_instances)
     IN  /\ c_pinecone' = r.pinecone
         /\ c_instances' = r.instances
         /\ c_got' = [c_got EXCEPT ![c] = r.client]
  /\ c_pc' = [c_pc EXCEPT ![c] = "awaiting"]
  /\ UNCHANGED c_variant
  /\ UNCHANGED <<pipeVars, splitVars, ctxVars, extractVars, tempVars,
                 chunkVars, embedVars, truncVars, authVars, loadVars,
                 rateVars, cacheVars, streamVars>>

\* part_002:83, 135: the request resumes with the client
ClientResume(c) ==
  /\ c_pc[c] = "awaiting"
  /\ c_pc' = [c_pc EXCEPT ![c] = "resumed"]
  /\ UNCHANGED <<c_variant, c_pinecone, c_instances, c_got>>
  /\ UNCHANGED <<pipeVars, splitVars, ctxVars, extractVars, tempVars,
                 chunkVars, embedVars, truncVars, authVars, loadVars,
                 rateVars, cacheVars, streamVars>>

\* the request is over
ClientDone(c) ==
  /\ c_pc[c] = "resumed"
  /\ c_pc' = [c_pc EXCEPT ![c] = "idle"]
  /\ c_got' = [c_got EXCEPT ![c] = 0]
  /\ UNCHANGED <<c_variant, c_pinecone, c_instances>>
  /\ UNCHANGED <<pipeVars, splitVars, ctxVars, extractVars, tempVars,
                 chunkVars, embedVars, truncVars, authVars, loadVars,
                 rateVars, cacheVars, streamVars>>

NextClient ==
  \/ \E c \in Callers : ClientCall(c)
  \/ \E c \in Callers : ClientResume(c)
  \/ \E c \in Callers : ClientDone(c)

InitClient ==
  /\ PipeInit /\ SplitOff /\ ContextIdle
  /\ ExtractIdle /\ TempIdle /\ ClientInit /\ ChunkOff
  /\ EmbedOff
  /\ TruncOff
  /\ AuthIdle
  /\ LoadIdle
  /\ RateIdle
  /\ CacheIdle
  /\ StreamIdle

SpecClient == InitClient /\ [][NextClient]_vars

\* ==================================================================== chunkers
\* test-utils.ts:777-855 (chunkDocuments, splitTextIntoChunks),
\* test-utils.ts:1079-1102 (prepareDocument),
\* pinecone.ts:155-221 (splitTextIntoChunks)
\*
\* pinecone.ts fixes maxChunkSize = 1000 and overlapSize = 100.  Its loop is
\* run with these values on the texts of LongTexts, and with smaller values of
\* the two constants on every text of ChunkTexts, which places terminators
\* and spaces at every position around the window end.

PINECONE_MAX_CHUNK_SIZE == 1000
PINECONE_OVERLAP_SIZE   == 100

ChunkTexts == UNION { [1..n -> {"a", " ", "."}] : n \in 0..MaxChunkText }

\* LongLen characters "a" with one space, full stop or "a" at a marked place
LongTexts ==
  { [j \in 1..LongLen |-> IF j = p THEN ch ELSE "a"] :
      p \in {900, 1000, 1001}, ch \in {"a", " ", "."} }

ScaledParams == { <<2, 1>>, <<MaxWindow, 2>> }

\* String.prototype.lastIndexOf(ch, fromIndex), indices from 0, -1 if none
lastIndexOf(str, ch, fromIndex) ==
  LET found == { j \in 0..Min(fromIndex, Len(str) - 1) : str[j + 1] = ch }
  IN  IF found = {} THEN -1 ELSE CHOOSE j \in found : \A l \in found : l <= j

\* String.prototype.trim
Trim(str) ==
  LET solid == { j \in DOMAIN str : str[j] # " " }
  IN  IF solid = {} THEN <<>>
      ELSE SubSeq(str, CHOOSE j \in solid : \A l \in solid : j <= l,
                       CHOOSE j \in solid : \A l \in solid : l <= j)

\* str.replace(/\s+/g, " "): a run of whitespace becomes one space
RECURSIVE CollapseSpaces(_)
CollapseSpaces(str) ==
  IF Len(str) <= 1 THEN str
  ELSE LET half == Len(str) \div 2
           left == CollapseSpaces(SubSeq(str, 1, half))
           right == CollapseSpaces(SubSeq(str, half + 1, Len(str)))
       IN  IF left[Len(left)] = " " /\ right[1] = " "
           THEN left \o Tail(right)
           ELSE left \o right

\* pinecone.ts:162, test-utils.ts:1083-1086
CleanText(str) == Trim(CollapseSpaces(str))

\* the window a step of a loop cuts and the start of the next window
\* test-utils.ts:832-847; the break at a space leaves a gap of two characters
wordBoundaryWindowGap(text, start, chunkSize, overlap) ==
  LET end == Min(start + chunkSize, Len(text))
      chunk == JsSlice(text, start, end)
      lastSpaceIndex == lastIndexOf(chunk, " ", Len(chunk) - 1)
  IN  IF end < Len(text)
      THEN IF 10 * lastSpaceIndex > 8 * chunkSize
           THEN [from |-> start, to |-> start + lastSpaceIndex,
                 next |-> start + lastSpaceIndex + 2]
           ELSE [from |-> start, to |-> end,
                 next |-> start + chunkSize - overlap]
      ELSE [from |-> start, to |-> end, next |-> Len(text)]

\* test-utils.ts:832-847
wordBoundaryWindow(text, start, chunkSize, overlap) ==
  LET end == Min(start + chunkSize, Len(text))
      chunk == JsSlice(text, start, end)
      lastSpaceIndex == lastIndexOf(chunk, " ", Len(chunk) - 1)
  IN  IF end < Len(text)
      THEN IF 10 * lastSpaceIndex > 8 * chunkSize
           THEN [from |-> start, to |-> start + lastSpaceIndex,
                 next |-> start + lastSpaceIndex + 1]
           ELSE [from |-> start, to |-> end,
                 next |-> start + chunkSize - overlap]
      ELSE [from |-> start, to |-> end, next |-> Len(text)]

\* pinecone.ts:169-185, 207
sentenceBoundaryWindow(cleanText, currentPosition, maxChunkSize, overlapSize) ==
  LET endPosition == Min(currentPosition + maxChunkSize, Len(cleanText))
      sentenceBreak == lastIndexOf(cleanText, ".", endPosition)
      wordBreak == lastIndexOf(cleanText, " ", endPosition)
      chunkEnd ==
        IF endPosition < Len(cleanText)
        THEN IF 10 * sentenceBreak > 10 * currentPosition + 8 * maxChunkSize
             THEN sentenceBreak + 1
             ELSE IF 10 * wordBreak > 10 * currentPosition + 8 * maxChunkSize
                  THEN wordBreak
                  ELSE endPosition
        ELSE endPosition
  IN  [from |-> currentPosition, to |-> chunkEnd,
       next |-> Max(chunkEnd - overlapSize, chunkEnd)]

\* the chunker that is called and its arguments
ChunkInit ==
  /\ k_pc = "called"
  /\ k_fn \in {"chunkDocuments", "prepareDocument", "splitTextIntoChunks"}
  /\ \E p \in ScaledParams \cup { <<CHUNK_SIZE, CHUNK_OVERLAP>>,
                                 <<PINECONE_MAX_CHUNK_SIZE, PINECONE_OVERLAP_SIZE>> } :
       /\ k_chunkSize = p[1]
       /\ k_overlap = p[2]
       /\ k_fn = "prepareDocument" => p = <<CHUNK_SIZE, CHUNK_OVERLAP>>
       /\ k_fn = "chunkDocuments" =>
            p \in ScaledParams \cup { <<CHUNK_SIZE, CHUNK_OVERLAP>> }
       /\ k_fn = "splitTextIntoChunks" =>
            p \in ScaledParams
                    \cup { <<PINECONE_MAX_CHUNK_SIZE, PINECONE_OVERLAP_SIZE>> }
       /\ k_text \in IF p \in ScaledParams THEN ChunkTexts
                     ELSE ChunkTexts \cup LongTexts
  /\ k_clean = <<>>
  /\ k_start = 0
  /\ k_chunks = <<>>
  /\ k_windows = <<>>

\* test-utils.ts:785-800, 1079-1093, pinecone.ts:158-166: up to the loop
ChunkEnter ==
  /\ k_pc = "called"
  /\ IF k_fn = "chunkDocuments"
     THEN IF Len(k_text) <= k_chunkSize
          THEN /\ k_chunks' = <<k_text>>
               /\ k_windows' = << [from |-> 0, to |-> Len(k_text)] >>
               /\ k_clean' = k_text
               /\ k_pc' = "returned"
          ELSE /\ k_clean' = k_text
               /\ k_pc' = "loop"
               /\ UNCHANGED <<k_chunks, k_windows>>
     ELSE IF k_fn = "prepareDocument"
     THEN /\ k_clean' = CleanText(k_text)
          /\ k_pc' = IF Len(CleanText(k_text)) = 0 THEN "returned"
                     ELSE "splitText"
          /\ UNCHANGED <<k_chunks, k_windows>>
     ELSE /\ k_clean' = CleanText(k_text)
          /\ k_pc' = "loop"
          /\ UNCHANGED <<k_chunks, k_windows>>
  /\ UNCHANGED <<k_fn, k_text, k_chunkSize, k_overlap, k_start>>
  /\ UNCHANGED <<pipeVars, splitVars, ctxVars, extractVars, tempVars,
                 clientVars, embedVars, truncVars, authVars, loadVars,
                 rateVars, cacheVars, streamVars>>

\* test-utils.ts:832-851, pinecone.ts:169-207: one iteration of the loop
ChunkStep ==
  /\ k_pc = "loop"
  /\ k_start < Len(k_clean)
  /\ LET w == IF k_fn = "chunkDocuments"
              THEN wordBoundaryWindow(k_clean, k_start, k_chunkSize, k_overlap)
              ELSE sentenceBoundaryWindow(k_clean, k_start, k_chunkSize,
                                          k_overlap)
         chunk == Trim(JsSlice(k_clean, w.from, w.to))
     IN  /\ k_start' = w.next
         /\ IF Len(chunk) > 0
            THEN /\ k_chunks' = Append(k_chunks, chunk)
                 /\ k_windows' = Append(k_windows,
                                        [from |-> w.from, to |-> w.to])
            ELSE UNCHANGED <<k_chunks, k_windows>>
  /\ UNCHANGED <<k_pc, k_fn, k_text, k_clean, k_chunkSize, k_overlap>>
  /\ UNCHANGED <<pipeVars, splitVars, ctxVars, extractVars, tempVars,
                 clientVars, embedVars, truncVars, authVars, loadVars,
                 rateVars, cacheVars, streamVars>>

\* test-utils.ts:831, 854, pinecone.ts:168, 220: the loop ends
ChunkReturn ==
  /\ k_pc = "loop"
  /\ k_start >= Len(k_clean)
  /\ k_pc' = "returned"
  /\ UNCHANGED <<k_fn, k_text, k_clean, k_chunkSize, k_overlap, k_start,
                 k_chunks, k_windows>>
  /\ UNCHANGED <<pipeVars, splitVars, ctxVars, extractVars, tempVars,
                 clientVars, embedVars, truncVars, authVars, loadVars,
                 rateVars, cacheVars, streamVars>>

NextChunk == ChunkEnter \/ ChunkStep \/ ChunkReturn

InitChunk ==
  /\ PipeInit /\ SplitOff /\ ContextIdle
  /\ ExtractIdle /\ TempIdle /\ ClientIdle /\ ChunkInit
  /\ EmbedOff
  /\ TruncOff
  /\ AuthIdle
  /\ LoadIdle
  /\ RateIdle
  /\ CacheIdle
  /\ StreamIdle

SpecChunk == InitChunk /\ [][NextChunk]_vars

\* =============================================================== getEmbeddings
\* part_002:107-127 (OpenAI), part_007:9-48 (Gemini)

EmbedTexts == UNION { [1..n -> {"a", " ", "\n"}] : n \in 0..MaxTextLen }

\* str.trim().length === 0
IsWhitespace(str) == \A j \in DOMAIN str : str[j] \in {" ", "\n"}

\* part_002:118: text.replace(/\n/g, " "); part_007:19 sends the text as it is
embedInput(variant, text) ==
  IF variant = "part_002"
  THEN [j \in DOMAIN text |-> IF text[j] = "\n" THEN " " ELSE text[j]]
  ELSE text

\* what the embedding service does with a request
ServiceOutcomes == {"vector", "no-vector", "unreachable"}

\* what getEmbeddings does with the outcome.  part_002:109-126: fetch rejects
\* when the service is unreachable, result.data[0] of an answer without data
\* throws a TypeError.  part_007:19-46: embedContent throws, or the answer has
\* no values
embedResult(variant, outcome) ==
  IF outcome = "vector" THEN [result |-> "vector", error |-> "none"]
  ELSE IF outcome = "unreachable"
       THEN [result |-> "none", error |-> "fetch failed"]
       ELSE [result |-> "none",
             error |-> IF variant = "part_002" THEN "TypeError"
                       ELSE "Failed to generate embeddings"]

EmbedInit ==
  /\ g_pc = "called"
  /\ g_variant \in {"part_002", "part_007"}
  /\ g_text \in EmbedTexts
  /\ g_sent = <<>>
  /\ g_result = "none"
  /\ g_error = "none"

\* part_002:108-120, part_007:14-19: the request is sent
EmbedRequest ==
  /\ g_pc = "called"
  /\ g_sent' = embedInput(g_variant, g_text)
  /\ g_pc' = "request"
  /\ UNCHANGED <<g_variant, g_text, g_result, g_error>>
  /\ UNCHANGED <<pipeVars, splitVars, ctxVars, extractVars, tempVars,
                 clientVars, chunkVars, truncVars, authVars, loadVars,
                 rateVars, cacheVars, streamVars>>

\* part_002:122-126, part_007:20-46: the service answers or fails
EmbedAnswer(outcome) ==
  /\ g_pc = "request"
  /\ g_result' = embedResult(g_variant, outcome).result
  /\ g_error' = embedResult(g_variant, outcome).error
  /\ g_pc' = IF outcome = "vector" THEN "returned" ELSE "thrown"
  /\ UNCHANGED <<g_variant, g_text, g_sent>>
  /\ UNCHANGED <<pipeVars, splitVars, ctxVars, extractVars, tempVars,
                 clientVars, chunkVars, truncVars, authVars, loadVars,
                 rateVars, cacheVars, streamVars>>

NextEmbed ==
  \/ EmbedRequest
  \/ \E outcome \in ServiceOutcomes : EmbedAnswer(outcome)

InitEmbed ==
  /\ PipeInit /\ SplitOff /\ ContextIdle
  /\ ExtractIdle /\ TempIdle /\ ClientIdle /\ ChunkOff
  /\ EmbedInit
  /\ TruncOff
  /\ AuthIdle
  /\ LoadIdle
  /\ RateIdle
  /\ CacheIdle
  /\ StreamIdle

SpecEmbed == InitEmbed /\ [][NextEmbed]_vars

\* ======================================================== truncateStringByBytes
\* pinecone.ts:223-233, part_003:214-217

\* code points of 1, 2, 3 and 4 bytes in UTF-8
CodePoints == {"a", "U+00E9", "U+20AC", "U+1F600"}

\* the replacement character a decoder writes for a malformed sequence
REPLACEMENT == "U+FFFD"

Utf8Length(cp) ==
  IF cp = "a" THEN 1
  ELSE IF cp = "U+00E9" THEN 2
  ELSE IF cp = "U+1F600" THEN 4
  ELSE 3

\* TextEncoder.encode: byte k of the n bytes of a code point is <<cp, k, n>>
RECURSIVE Utf8Encode(_)
Utf8Encode(str) ==
  IF str = <<>> THEN <<>>
  ELSE [k \in 1..Utf8Length(Head(str)) |->
          <<Head(str), k, Utf8Length(Head(str))>>]
       \o Utf8Encode(Tail(str))

\* new TextDecoder("utf-8").decode: not fatal, so a sequence that the end of
\* the input cuts short is decoded as one replacement character
RECURSIVE Utf8Decode(_)
Utf8Decode(octets) ==
  IF octets = <<>> THEN <<>>
  ELSE LET n == Head(octets)[3]
       IN  IF Len(octets) >= n
           THEN <<Head(octets)[1]>> \o Utf8Decode(SubSeq(octets, n + 1, Len(octets)))
           ELSE <<REPLACEMENT>>

\* pinecone.ts:225-228
truncateStringByBytes(str, bytes) ==
  Utf8Decode(JsSlice(Utf8Encode(str), 0, bytes))

TruncInit ==
  /\ u_pc = "called"
  /\ u_str \in UNION { [1..n -> CodePoints] : n \in 0..MaxTruncLen }
  /\ u_bytes \in 0..MaxBytes
  /\ u_result = <<>>

\* pinecone.ts:223-233
Truncate ==
  /\ u_pc = "called"
  /\ u_result' = truncateStringByBytes(u_str, u_bytes)
  /\ u_pc' = "returned"
  /\ UNCHANGED <<u_str, u_bytes>>
  /\ UNCHANGED <<pipeVars, splitVars, ctxVars, extractVars, tempVars,
                 clientVars, chunkVars, embedVars, authVars, loadVars,
                 rateVars, cacheVars, streamVars>>

NextTrunc == Truncate

InitTrunc ==
  /\ PipeInit /\ SplitOff /\ ContextIdle
  /\ ExtractIdle /\ TempIdle /\ ClientIdle /\ ChunkOff
  /\ EmbedOff
  /\ TruncInit
  /\ AuthIdle
  /\ LoadIdle
  /\ RateIdle
  /\ CacheIdle
  /\ StreamIdle

SpecTrunc == InitTrunc /\ [][NextTrunc]_vars

\* ================================================================== API routes
\* app/api/upload/route.ts:5-80, part_009:19-75 (POST /api/create-chat),
\* app/api/chat/route.ts:71-168

\* signed-in users; "null" is the userId of a request without a session
Users == {"alice", "bob"}

\* upload/route.ts:8-11, 46-49, 67-74: the file of a signed-in user is stored
\* under uploads/<userId>/<timestamp>-<name>
Upload(user) ==
  /\ Cardinality(a_files) < MaxFiles
  /\ IF user = "null"
     THEN a_status' = 401 /\ UNCHANGED a_files
     ELSE /\ a_files' = a_files \cup
                { [key |-> <<"uploads", user, Cardinality(a_files) + 1>>,
                   owner |-> user] }
          /\ a_status' = 200
  /\ UNCHANGED <<a_chats, a_messages, a_served>>
  /\ UNCHANGED <<pipeVars, splitVars, ctxVars, extractVars, tempVars,
                 clientVars, chunkVars, embedVars, truncVars, loadVars,
                 rateVars, cacheVars, streamVars>>

\* part_009:19-75: the file_key of the request body is ingested and a chat
\* row is inserted for the caller; a failed ingestion answers 500
CreateChat(user, file_key, ingested) ==
  /\ Cardinality(a_chats) < MaxChats
  /\ IF user = "null"
     THEN a_status' = 401 /\ UNCHANGED a_chats
     ELSE IF ~ingested
     THEN a_status' = 500 /\ UNCHANGED a_chats
     ELSE /\ a_chats' = a_chats \cup
                { [id |-> Cardinality(a_chats) + 1, userId |-> user,
                   fileKey |-> file_key] }
          /\ a_status' = 200
  /\ UNCHANGED <<a_files, a_messages, a_served>>
  /\ UNCHANGED <<pipeVars, splitVars, ctxVars, extractVars, tempVars,
                 clientVars, chunkVars, embedVars, truncVars, loadVars,
                 rateVars, cacheVars, streamVars>>

\* chat/route.ts:71-113: the chat row is looked up and compared with the
\* caller, the message is stored, the context of the chat's file is retrieved
Chat(user, chatId) ==
  /\ IF user = "null"
     THEN a_status' = 401 /\ UNCHANGED <<a_messages, a_served>>
     ELSE IF ~\E c \in a_chats : c.id = chatId /\ c.userId = user
     THEN a_status' = 404 /\ UNCHANGED <<a_messages, a_served>>
     ELSE LET chat == CHOOSE c \in a_chats : c.id = chatId
          IN  /\ a_messages' = a_messages \cup
                     { [chatId |-> chatId, author |-> user] }
              /\ a_served' = a_served \cup
                     { [user |-> user, fileKey |-> chat.fileKey] }
              /\ a_status' = 200
  /\ UNCHANGED <<a_files, a_chats>>
  /\ UNCHANGED <<pipeVars, splitVars, ctxVars, extractVars, tempVars,
                 clientVars, chunkVars, embedVars, truncVars, loadVars,
                 rateVars, cacheVars, streamVars>>

NextAuth ==
  \/ \E user \in Users \cup {"null"} : Upload(user)
  \/ \E user \in Users \cup {"null"}, f \in a_files, ingested \in BOOLEAN :
        CreateChat(user, f.key, ingested)
  \/ \E user \in Users \cup {"null"}, chatId \in 1..MaxChats :
        Chat(user, chatId)

InitAuth ==
  /\ PipeInit /\ SplitOff /\ ContextIdle
  /\ ExtractIdle /\ TempIdle /\ ClientIdle /\ ChunkOff
  /\ EmbedOff
  /\ TruncOff
  /\ AuthIdle
  /\ LoadIdle
  /\ RateIdle
  /\ CacheIdle
  /\ StreamIdle

SpecAuth == InitAuth /\ [][NextAuth]_vars

\* ===================================================================== loadPDF
\* test-utils.ts:991-1070

\* test-utils.ts:994-1007: the file is read, the loading task is created and
\* raced against a promise the timer rejects after 30000 ms
LoadStart ==
  /\ l_pc = "idle"
  /\ l_pc' = "load"
  /\ l_timer' = "armed"
  /\ UNCHANGED <<l_numPages, l_i, l_pages, l_error>>
  /\ UNCHANGED <<pipeVars, splitVars, ctxVars, extractVars, tempVars,
                 clientVars, chunkVars, embedVars, truncVars, authVars,
                 rateVars, cacheVars, streamVars>>

\* test-utils.ts:997, 1059-1064: fs.readFileSync throws, the error is caught
LoadReadFail ==
  /\ l_pc = "idle"
  /\ l_pc' = "fallback"
  /\ l_error' = "ENOENT"
  /\ UNCHANGED <<l_timer, l_numPages, l_i, l_pages>>
  /\ UNCHANGED <<pipeVars, splitVars, ctxVars, extractVars, tempVars,
                 clientVars, chunkVars, embedVars, truncVars, authVars,
                 rateVars, cacheVars, streamVars>>

\* test-utils.ts:1002-1003, 1012: loadingTask.promise resolves first
DocumentLoaded(numPages) ==
  /\ l_pc = "load"
  /\ l_numPages' = numPages
  /\ l_i' = 1
  /\ l_pc' = IF numPages >= 1 THEN "getPage" ELSE "check"
  /\ UNCHANGED <<l_timer, l_pages, l_error>>
  /\ UNCHANGED <<pipeVars, splitVars, ctxVars, extractVars, tempVars,
                 clientVars, chunkVars, embedVars, truncVars, authVars,
                 rateVars, cacheVars, streamVars>>

\* test-utils.ts:1002-1003, 1059: loadingTask.promise rejects first
DocumentRejected ==
  /\ l_pc = "load"
  /\ l_pc' = "fallback"
  /\ l_error' = "Invalid PDF structure"
  /\ UNCHANGED <<l_timer, l_numPages, l_i, l_pages>>
  /\ UNCHANGED <<pipeVars, splitVars, ctxVars, extractVars, tempVars,
                 clientVars, chunkVars, embedVars, truncVars, authVars,
                 rateVars, cacheVars, streamVars>>

\* test-utils.ts:1004-1006: the timer fires 30000 ms after it was set and
\* rejects its promise; the rejection settles the race only while loadPDF
\* still awaits it (1002), later it has no effect
TimerFires ==
  /\ l_timer = "armed"
  /\ l_timer' = "fired"
  /\ IF l_pc = "load"
     THEN l_pc' = "fallback" /\ l_error' = "PDF loading timeout"
     ELSE UNCHANGED <<l_pc, l_error>>
  /\ UNCHANGED <<l_numPages, l_i, l_pages>>
  /\ UNCHANGED <<pipeVars, splitVars, ctxVars, extractVars, tempVars,
                 clientVars, chunkVars, embedVars, truncVars, authVars,
                 rateVars, cacheVars, streamVars>>

\* the loop's i++ and test (1012)
NextPage(j) == IF j + 1 <= l_numPages THEN "getPage" ELSE "check"

\* test-utils.ts:1014: pdf.getPage(i) resolves
GetPageOk ==
  /\ l_pc = "getPage"
  /\ l_pc' = "getTextContent"
  /\ UNCHANGED <<l_timer, l_numPages, l_i, l_pages, l_error>>
  /\ UNCHANGED <<pipeVars, splitVars, ctxVars, extractVars, tempVars,
                 clientVars, chunkVars, embedVars, truncVars, authVars,
                 rateVars, cacheVars, streamVars>>

\* test-utils.ts:1014, 1048-1051: pdf.getPage(i) rejects, the page is skipped
GetPageFail ==
  /\ l_pc = "getPage"
  /\ l_pc' = NextPage(l_i)
  /\ l_i' = l_i + 1
  /\ UNCHANGED <<l_timer, l_numPages, l_pages, l_error>>
  /\ UNCHANGED <<pipeVars, splitVars, ctxVars, extractVars, tempVars,
                 clientVars, chunkVars, embedVars, truncVars, authVars,
                 rateVars, cacheVars, streamVars>>

\* test-utils.ts:1015-1047: page.getTextContent() resolves; a page with text
\* is pushed
TextContentOk(hasText) ==
  /\ l_pc = "getTextContent"
  /\ l_pages' = IF hasText THEN Append(l_pages, l_i) ELSE l_pages
  /\ l_pc' = NextPage(l_i)
  /\ l_i' = l_i + 1
  /\ UNCHANGED <<l_timer, l_numPages, l_error>>
  /\ UNCHANGED <<pipeVars, splitVars, ctxVars, extractVars, tempVars,
                 clientVars, chunkVars, embedVars, truncVars, authVars,
                 rateVars, cacheVars, streamVars>>

\* test-utils.ts:1015, 1048-1051: page.getTextContent() rejects
TextContentFail ==
  /\ l_pc = "getTextContent"
  /\ l_pc' = NextPage(l_i)
  /\ l_i' = l_i + 1
  /\ UNCHANGED <<l_timer, l_numPages, l_pages, l_error>>
  /\ UNCHANGED <<pipeVars, splitVars, ctxVars, extractVars, tempVars,
                 clientVars, chunkVars, embedVars, truncVars, authVars,
                 rateVars, cacheVars, streamVars>>

\* test-utils.ts:1054-1058: after the loop
LoopEnd ==
  /\ l_pc = "check"
  /\ IF Len(l_pages) = 0
     THEN /\ l_pc' = "fallback"
          /\ l_error' = "No text content could be extracted from PDF"
     ELSE /\ l_pc' = "returned"
          /\ UNCHANGED l_error
  /\ UNCHANGED <<l_timer, l_numPages, l_i, l_pages>>
  /\ UNCHANGED <<pipeVars, splitVars, ctxVars, extractVars, tempVars,
                 clientVars, chunkVars, embedVars, truncVars, authVars,
                 rateVars, cacheVars, streamVars>>

\* test-utils.ts:1059-1068, 1073-1077: fallbackPDFParsing throws, loadPDF
\* throws "PDF processing failed: ..."
Fallback ==
  /\ l_pc = "fallback"
  /\ l_pc' = "thrown"
  /\ UNCHANGED <<l_timer, l_numPages, l_i, l_pages, l_error>>
  /\ UNCHANGED <<pipeVars, splitVars, ctxVars, extractVars, tempVars,
                 clientVars, chunkVars, embedVars, truncVars, authVars,
                 rateVars, cacheVars, streamVars>>

NextLoad ==
  \/ LoadStart
  \/ LoadReadFail
  \/ \E numPages \in 0..MaxLoadPages : DocumentLoaded(numPages)
  \/ DocumentRejected
  \/ TimerFires
  \/ GetPageOk
  \/ GetPageFail
  \/ \E hasText \in BOOLEAN : TextContentOk(hasText)
  \/ TextContentFail
  \/ LoopEnd
  \/ Fallback

InitLoad ==
  /\ PipeInit /\ SplitOff /\ ContextIdle
  /\ ExtractIdle /\ TempIdle /\ ClientIdle /\ ChunkOff
  /\ EmbedOff
  /\ TruncOff
  /\ AuthIdle
  /\ LoadIdle
  /\ RateIdle
  /\ CacheIdle
  /\ StreamIdle

SpecLoad == InitLoad /\ [][NextLoad]_vars

\* loadPDF's own steps are taken and the timer fires; nothing makes the
\* parser's promises settle
SpecLoadFair ==
  /\ SpecLoad
  /\ WF_vars(LoadStart)
  /\ WF_vars(TimerFires)
  /\ WF_vars(LoopEnd)
  /\ WF_vars(Fallback)

\* ================================================================== rateLimit
\* cache.ts:219-247

WINDOW_MS == 60000

MAX_REQUESTS == 60

\* the clock advances in steps of half a window
RateTickMs == 30000

\* one request more than MAX_REQUESTS is admitted: count > MAX_REQUESTS
rateLimitOffByOne(ipMap, ip, now) ==
  LET entry == ipMap[ip]
  IN  IF entry = NoEntry \/ entry.expires < now
      THEN [ipMap  |-> [ipMap EXCEPT ![ip] =
                          [count |-> 1, expires |-> now + WINDOW_MS]],
            status |-> 200]
      ELSE IF entry.count > MAX_REQUESTS
      THEN [ipMap |-> ipMap, status |-> 429]
      ELSE [ipMap  |-> [ipMap EXCEPT ![ip].count = entry.count + 1],
            status |-> 200]

\* cache.ts:229-247: the map after the request and the status answered
rateLimit(ipMap, ip, now) ==
  LET entry == ipMap[ip]
  IN  IF entry = NoEntry \/ entry.expires < now
      THEN [ipMap  |-> [ipMap EXCEPT ![ip] =
                          [count |-> 1, expires |-> now + WINDOW_MS]],
            status |-> 200]
      ELSE IF entry.count >= MAX_REQUESTS
      THEN [ipMap |-> ipMap, status |-> 429]
      ELSE [ipMap  |-> [ipMap EXCEPT ![ip].count = entry.count + 1],
            status |-> 200]

\* time passes
RateTick ==
  /\ r_now < MaxRateTicks * RateTickMs
  /\ r_now' = r_now + RateTickMs
  /\ UNCHANGED <<r_ipMap, r_last, r_window>>
  /\ UNCHANGED <<pipeVars, splitVars, ctxVars, extractVars, tempVars,
                 clientVars, chunkVars, embedVars, truncVars, authVars,
                 loadVars, cacheVars, streamVars>>

\* cache.ts:249-253: the middleware answers a request of ip. The history
\* counts the admitted request in the window it falls in: the latest window
\* of the ip while that has not lasted WINDOW_MS, a new one otherwise
RateRequest(ip) ==
  LET res == rateLimit(r_ipMap, ip, r_now)
      w == r_window[ip]
  IN  /\ r_ipMap' = res.ipMap
      /\ r_last' = [ip |-> ip, status |-> res.status]
      /\ r_window' =
           IF res.status = 429 THEN r_window
           ELSE IF w = NoWindow \/ r_now > w.opened + WINDOW_MS
           THEN [r_window EXCEPT ![ip] = [opened |-> r_now, admitted |-> 1]]
           ELSE [r_window EXCEPT ![ip].admitted = w.admitted + 1]
      /\ UNCHANGED r_now
  /\ UNCHANGED <<pipeVars, splitVars, ctxVars, extractVars, tempVars,
                 clientVars, chunkVars, embedVars, truncVars, authVars,
                 loadVars, cacheVars, streamVars>>

NextRate ==
  \/ RateTick
  \/ \E ip \in RateIps : RateRequest(ip)

InitRate ==
  /\ PipeInit /\ SplitOff /\ ContextIdle
  /\ ExtractIdle /\ TempIdle /\ ClientIdle /\ ChunkOff
  /\ EmbedOff
  /\ TruncOff
  /\ AuthIdle
  /\ LoadIdle
  /\ RateIdle
  /\ CacheIdle
  /\ StreamIdle

SpecRate == InitRate /\ [][NextRate]_vars

\* ====================================================================== Cache
\* cache.ts:12-99

CacheKeys == {"a", "b", "c", "d"}

\* cache.ts:18-19: maxSize of the instance; its ttl is one step of the clock
maxSize == MaxCacheSize

defaultTTL == 1

\* Map.prototype.has
MapHas(map, key) == \E j \in DOMAIN map : map[j].key = key

\* Map.prototype.get
MapGet(map, key) == map[CHOOSE j \in DOMAIN map : map[j].key = key]

\* Map.prototype.delete
MapDelete(map, key) == SelectSeq(map, LAMBDA e : e.key # key)

\* Map.prototype.set: the entry of a key the map holds is replaced where it
\* stands, the entry of a new key goes to the end
MapSet(map, entry) ==
  IF MapHas(map, entry.key)
  THEN [j \in DOMAIN map |-> IF map[j].key = entry.key THEN entry ELSE map[j]]
  ELSE Append(map, entry)

\* cache.ts:48, 61, 85
Expired(entry, now) == now - entry.timestamp > entry.ttl

\* cache.ts:30-35: the entry deleted by set, none when the cache is not full
Evicted(map) ==
  IF Len(map) >= maxSize /\ Len(map) > 0 THEN <<map[1]>> ELSE <<>>

\* cache.ts:22-38
set(map, key, now) ==
  LET entry == [key |-> key, timestamp |-> now, ttl |-> defaultTTL]
      room == IF Evicted(map) # <<>> THEN MapDelete(map, map[1].key) ELSE map
  IN  MapSet(room, entry)

\* cache.ts:40-54 and 56-67: the map after get(key) or has(key)
get(map, key, now) ==
  IF MapHas(map, key) /\ Expired(MapGet(map, key), now)
  THEN MapDelete(map, key)
  ELSE map

\* cache.ts:82-89
cleanup(map, now) == SelectSeq(map, LAMBDA e : ~Expired(e, now))

CacheTick ==
  /\ m_now < MaxCacheClock
  /\ m_now' = m_now + 1
  /\ UNCHANGED <<m_cache, m_last>>
  /\ UNCHANGED <<pipeVars, splitVars, ctxVars, extractVars, tempVars,
                 clientVars, chunkVars, embedVars, truncVars, authVars,
                 loadVars, rateVars, streamVars>>

CacheSet(key) ==
  /\ m_cache' = set(m_cache, key, m_now)
  /\ m_last' = [op |-> "set", key |-> key, before |-> m_cache,
                evicted |-> Evicted(m_cache), value |-> TRUE]
  /\ UNCHANGED m_now
  /\ UNCHANGED <<pipeVars, splitVars, ctxVars, extractVars, tempVars,
                 clientVars, chunkVars, embedVars, truncVars, authVars,
                 loadVars, rateVars, streamVars>>

\* cache.ts:40-54
CacheGet(key) ==
  /\ m_cache' = get(m_cache, key, m_now)
  /\ m_last' = [op |-> "get", key |-> key, before |-> m_cache,
                evicted |-> <<>>,
                value |-> MapHas(get(m_cache, key, m_now), key)]
  /\ UNCHANGED m_now
  /\ UNCHANGED <<pipeVars, splitVars, ctxVars, extractVars, tempVars,
                 clientVars, chunkVars, embedVars, truncVars, authVars,
                 loadVars, rateVars, streamVars>>

\* cache.ts:56-67
CacheHas(key) ==
  /\ m_cache' = get(m_cache, key, m_now)
  /\ m_last' = [op |-> "has", key |-> key, before |-> m_cache,
                evicted |-> <<>>,
                value |-> MapHas(get(m_cache, key, m_now), key)]
  /\ UNCHANGED m_now
  /\ UNCHANGED <<pipeVars, splitVars, ctxVars, extractVars, tempVars,
                 clientVars, chunkVars, embedVars, truncVars, authVars,
                 loadVars, rateVars, streamVars>>

\* cache.ts:69-71
CacheDelete(key) ==
  /\ m_cache' = MapDelete(m_cache, key)
  /\ m_last' = [op |-> "delete", key |-> key, before |-> m_cache,
                evicted |-> <<>>, value |-> MapHas(m_cache, key)]
  /\ UNCHANGED m_now
  /\ UNCHANGED <<pipeVars, splitVars, ctxVars, extractVars, tempVars,
                 clientVars, chunkVars, embedVars, truncVars, authVars,
                 loadVars, rateVars, streamVars>>

\* cache.ts:82-89, 207-215
CacheCleanup ==
  /\ m_cache' = cleanup(m_cache, m_now)
  /\ m_last' = [op |-> "cleanup", key |-> "", before |-> m_cache,
                evicted |-> <<>>, value |-> TRUE]
  /\ UNCHANGED m_now
  /\ UNCHANGED <<pipeVars, splitVars, ctxVars, extractVars, tempVars,
                 clientVars, chunkVars, embedVars, truncVars, authVars,
                 loadVars, rateVars, streamVars>>

NextCache ==
  \/ CacheTick
  \/ \E key \in CacheKeys : CacheSet(key)
  \/ \E key \in CacheKeys : CacheGet(key)
  \/ \E key \in CacheKeys : CacheHas(key)
  \/ \E key \in CacheKeys : CacheDelete(key)
  \/ CacheCleanup

InitCache ==
  /\ PipeInit /\ SplitOff /\ ContextIdle
  /\ ExtractIdle /\ TempIdle /\ ClientIdle /\ ChunkOff
  /\ EmbedOff
  /\ TruncOff
  /\ AuthIdle
  /\ LoadIdle
  /\ RateIdle
  /\ CacheIdle
  /\ StreamIdle

SpecCache == InitCache /\ [][NextCache]_vars

\* ========================================================= streamOpenAIChunks
\* chat/route.ts:17-69, 141-154

\* route.ts:141-154, 24-26: the readable is created, start() takes the
\* reader of the upstream body, the readable is piped to the sink
StreamStart ==
  /\ w_pc = "idle"
  /\ w_upstream' = "open"
  /\ w_pc' = "reading"
  /\ w_state' = "readable"
  /\ w_sink' = "writable"
  /\ UNCHANGED <<w_queue, w_accumulated, w_written, w_stored>>
  /\ UNCHANGED <<pipeVars, splitVars, ctxVars, extractVars, tempVars, clientVars, chunkVars, embedVars, truncVars, authVars, loadVars, rateVars, cacheVars>>

\* the upstream body ends
UpstreamEnds ==
  /\ w_upstream = "open"
  /\ w_upstream' = "ended"
  /\ UNCHANGED <<w_pc, w_state, w_queue, w_accumulated, w_sink, w_written,
                 w_stored>>
  /\ UNCHANGED <<pipeVars, splitVars, ctxVars, extractVars, tempVars, clientVars, chunkVars, embedVars, truncVars, authVars, loadVars, rateVars, cacheVars>>

\* the upstream body fails
UpstreamFails ==
  /\ w_upstream = "open"
  /\ w_upstream' = "failed"
  /\ UNCHANGED <<w_pc, w_state, w_queue, w_accumulated, w_sink, w_written,
                 w_stored>>
  /\ UNCHANGED <<pipeVars, splitVars, ctxVars, extractVars, tempVars, clientVars, chunkVars, embedVars, truncVars, authVars, loadVars, rateVars, cacheVars>>

\* route.ts:30-59: a chunk is read whose line carries content: it is
\* appended to accumulated and enqueued
ReadContent ==
  /\ w_pc = "reading"
  /\ w_upstream = "open"
  /\ w_accumulated < MaxStreamChunks
  /\ w_accumulated' = w_accumulated + 1
  /\ w_queue' = w_queue + 1
  /\ UNCHANGED <<w_upstream, w_pc, w_state, w_sink, w_written, w_stored>>
  /\ UNCHANGED <<pipeVars, splitVars, ctxVars, extractVars, tempVars, clientVars, chunkVars, embedVars, truncVars, authVars, loadVars, rateVars, cacheVars>>

\* route.ts:43-46: a chunk is read whose line is "data: [DONE]":
\* controller.close(), start() returns
ReadDone ==
  /\ w_pc = "reading"
  /\ w_upstream = "open"
  /\ w_state' = "closed"
  /\ w_pc' = "finished"
  /\ UNCHANGED <<w_upstream, w_queue, w_accumulated, w_sink, w_written,
                 w_stored>>
  /\ UNCHANGED <<pipeVars, splitVars, ctxVars, extractVars, tempVars, clientVars, chunkVars, embedVars, truncVars, authVars, loadVars, rateVars, cacheVars>>

\* route.ts:30-31, 65: reader.read() answers done: the loop is left and
\* start() returns
ReadEnd ==
  /\ w_pc = "reading"
  /\ w_upstream = "ended"
  /\ w_pc' = "finished"
  /\ UNCHANGED <<w_upstream, w_state, w_queue, w_accumulated, w_sink,
                 w_written, w_stored>>
  /\ UNCHANGED <<pipeVars, splitVars, ctxVars, extractVars, tempVars, clientVars, chunkVars, embedVars, truncVars, authVars, loadVars, rateVars, cacheVars>>

\* route.ts:30, 62-64: reader.read() rejects: controller.error(err), which
\* drops the queue
ReadThrows ==
  /\ w_pc = "reading"
  /\ w_upstream = "failed"
  /\ w_state' = "errored"
  /\ w_queue' = 0
  /\ w_pc' = "finished"
  /\ UNCHANGED <<w_upstream, w_accumulated, w_sink, w_written, w_stored>>
  /\ UNCHANGED <<pipeVars, splitVars, ctxVars, extractVars, tempVars, clientVars, chunkVars, embedVars, truncVars, authVars, loadVars, rateVars, cacheVars>>

\* route.ts:144-146: pipeTo hands an enqueued chunk to write()
PipeChunk ==
  /\ w_sink = "writable"
  /\ w_queue > 0
  /\ w_queue' = w_queue - 1
  /\ w_written' = w_written + 1
  /\ UNCHANGED <<w_upstream, w_pc, w_state, w_accumulated, w_sink, w_stored>>
  /\ UNCHANGED <<pipeVars, splitVars, ctxVars, extractVars, tempVars, clientVars, chunkVars, embedVars, truncVars, authVars, loadVars, rateVars, cacheVars>>

\* route.ts:147-152: the readable is closed and drained: pipeTo closes the
\* sink, whose close() inserts the accumulated message
PipeClose ==
  /\ w_sink = "writable"
  /\ w_state = "closed"
  /\ w_queue = 0
  /\ w_sink' = "closed"
  /\ w_stored' = w_stored + 1
  /\ UNCHANGED <<w_upstream, w_pc, w_state, w_queue, w_accumulated, w_written>>
  /\ UNCHANGED <<pipeVars, splitVars, ctxVars, extractVars, tempVars, clientVars, chunkVars, embedVars, truncVars, authVars, loadVars, rateVars, cacheVars>>

\* route.ts:144-154: the readable is errored: pipeTo aborts the sink and
\* rejects, close() is not called
PipeAbort ==
  /\ w_sink = "writable"
  /\ w_state = "errored"
  /\ w_sink' = "aborted"
  /\ UNCHANGED <<w_upstream, w_pc, w_state, w_queue, w_accumulated, w_written,
                 w_stored>>
  /\ UNCHANGED <<pipeVars, splitVars, ctxVars, extractVars, tempVars, clientVars, chunkVars, embedVars, truncVars, authVars, loadVars, rateVars, cacheVars>>

NextStream ==
  \/ StreamStart
  \/ UpstreamEnds
  \/ UpstreamFails
  \/ ReadContent
  \/ ReadDone
  \/ ReadEnd
  \/ ReadThrows
  \/ PipeChunk
  \/ PipeClose
  \/ PipeAbort

InitStream ==
  /\ PipeInit /\ SplitOff /\ ContextIdle
  /\ ExtractIdle /\ TempIdle /\ ClientIdle /\ ChunkOff
  /\ EmbedOff
  /\ TruncOff
  /\ AuthIdle
  /\ LoadIdle
  /\ RateIdle
  /\ CacheIdle
  /\ StreamIdle

SpecStream == InitStream /\ [][NextStream]_vars

\* the steps of start() and of pipeTo are taken when they can be; nothing
\* makes the upstream deliver a chunk, end or fail
SpecStreamFair ==
  /\ SpecStream
  /\ WF_vars(StreamStart)
  /\ WF_vars(ReadEnd)
  /\ WF_vars(ReadThrows)
  /\ WF_vars(PipeChunk)
  /\ WF_vars(PipeClose)
  /\ WF_vars(PipeAbort)

\* ==================================================================== claims

UpsertCalls == SelectSeq(calls, LAMBDA c : c.op = "upsert")

DeleteAllCalls == SelectSeq(calls, LAMBDA c : c.op = "deleteAll")

BatchesOf(cs) == Flat([j \in DOMAIN cs |-> cs[j].batch])

\* C1: loadS3IntoPinecone never returns successfully when zero vectors were
\* produced: a run that returns has built at least one vector.
C1_NoSuccessWithoutVectors ==
  pc = "returned" => Len(vectors) > 0

\* C2: an embedding failure that follows at least one embedded chunk does not
\* fail the run: no run throws the embedding error once a chunk has embedded.
C2_EmbeddingFailureSkipsChunk ==
  ~(pc = "thrown" /\ error.origin = "embedding" /\ Len(vectors) >= 1)

\* C3: with overlap < chunkSize the window start of splitText strictly
\* increases on every iteration of its loop.
C3_WindowStartIncreases ==
  [][SplitStep => s_start' > s_start]_vars

\* C4: when loadS3IntoPinecone returns or throws, the temporary file its run
\* downloaded is removed.
C4_TempFileRemoved ==
  (pc \in {"returned", "thrown"} /\ file_name # NoFile) => file_name \notin disk

\* C5: when a run of a key that built vectors has returned, the key's
\* namespace holds exactly the records of that run, none of an earlier run.
C5_NamespaceHoldsLatestRun ==
  (pc = "returned" /\ Len(vectors) > 0) => store[ns] = UpsertInto({}, vectors)

\* C6: a run that has reached the upsert stage has issued exactly one
\* deleteAll, as its first vector-store call, and every later call of the run
\* is an upsert.
C6_OneDeleteAllBeforeUpserts ==
  pc \in {"upsert", "returned"} \/ (pc = "thrown" /\ error.origin = "upsert")
    => /\ Len(calls) >= 1
       /\ calls[1].op = "deleteAll"
       /\ Len(DeleteAllCalls) = 1
       /\ \A j \in 2..Len(calls) : calls[j].op = "upsert"

C6_Witness ==
  /\ pc = "returned"
  /\ Len(UpsertCalls) >= 2
  /\ calls[1].op = "deleteAll"

\* C7: the upsert calls of a run carry at most 100 records each, batch j is
\* the j-th hundred of the vector list, and when the run returns there are
\* ceil(n/100) calls whose batches concatenate to the vector list.
C7_BatchedUpsert ==
  pc \in {"upsert", "returned"} =>
    LET n == Len(vectors)
        ups == UpsertCalls
    IN  /\ \A j \in DOMAIN ups :
             /\ Len(ups[j].batch) <= 100
             /\ Len(ups[j].batch) >= 1
             /\ ups[j].batch = SubSeq(vectors, 100 * (j - 1) + 1,
                                      Min(100 * j, n))
        /\ pc = "returned" =>
             /\ Len(ups) = (n + 99) \div 100
             /\ BatchesOf(ups) = vectors

C7_Witness ==
  /\ pc = "returned"
  /\ Len(vectors) > 200
  /\ Len(UpsertCalls) = 3
  /\ Len(UpsertCalls[1].batch) = 100
  /\ Len(UpsertCalls[2].batch) = 100
  /\ Len(UpsertCalls[3].batch) = Len(vectors) - 200

\* C8: when the upsert of a batch fails, the error the run throws carries
\* the offset of the failing batch, no later batch is upserted and the
\* records of the earlier batches are in the namespace.
C8_UpsertErrorNamesBatch ==
  (pc = "thrown" /\ error.origin = "upsert") =>
    /\ "offset" \in DOMAIN error
    /\ error.offset = i
    /\ ~calls[Len(calls)].ok
    /\ \A j \in 1..(Len(UpsertCalls) - 1) :
         \A l \in DOMAIN UpsertCalls[j].batch :
            UpsertCalls[j].batch[l] \in store[ns]

\* C9: a failed deleteAll never fails the run: no run throws a deleteAll
\* error, and a run that returns after a failed deleteAll has upserted every
\* batch.
C9_DeleteAllFailureIsNotFatal ==
  /\ pc = "thrown" => error.origin \in {"download", "loadpdf", "embedding", "upsert"}
  /\ (pc = "returned" /\ ~calls[1].ok) =>
       /\ \A j \in 2..Len(calls) : calls[j].op = "upsert" /\ calls[j].ok
       /\ BatchesOf(UpsertCalls) = vectors
       /\ \A j \in DOMAIN vectors : \E r \in store[ns] : r.id = vectors[j].id

C9_Witness ==
  /\ pc = "returned"
  /\ calls[1].op = "deleteAll"
  /\ ~calls[1].ok
  /\ Len(UpsertCalls) >= 2

\* C10: getContext returns the empty string when no match scores 0.75 or
\* more, never more than 3000 characters, and it always returns.
C10_ContextEmptyOrCapped ==
  /\ q_pc \in {"idle", "embed", "query", "assemble", "returned"}
  /\ q_pc = "returned" =>
       /\ Len(q_result) <= 3000
       /\ (\A j \in DOMAIN q_matches :
              "score" \notin DOMAIN q_matches[j] \/ q_matches[j].score < 75)
            => q_result = <<>>
       /\ store[convertToAscii(q_key)] = {} => q_result = <<>>

C10_Witness ==
  /\ q_pc = "returned"
  /\ q_caught = "none"
  /\ Len(q_matches) = 3
  /\ \A j \in DOMAIN q_matches :
       "score" \in DOMAIN q_matches[j] /\ q_matches[j].score >= 75
  /\ Len(q_result) = 3000

\* C11: a failure of the query embedding or of the vector-store query is
\* raised to the caller of getContext: getContext returns a value only when
\* no call failed, and the empty value only when the query succeeded and no
\* match scored 0.75 or more.
C11_ContextFailureIsRaised ==
  q_pc = "returned" =>
    /\ q_caught = "none"
    /\ q_result = <<>> => Len(Qualifying(q_matches)) = 0

\* C12: distinct file keys have distinct namespaces, so no step of an
\* ingestion run of one key (its deleteAll, its upserts) changes the namespace
\* of another key.
C12_RunKeepsOtherNamespaces ==
  [][\A k \in Keys :
       (pc # "idle" /\ k # fileKey) =>
          store'[convertToAscii(k)] = store[convertToAscii(k)]]_vars

\* C13: after a successful run (whose deleteAll succeeded) the namespace of
\* the document holds as many records as the run created chunks.
C13_OneRecordPerChunk ==
  (pc = "returned" /\ calls[1].ok) =>
     Cardinality(store[ns]) = Len(documents)

\* C14: the strategies run in order 1, 2, ...; one is started only after all
\* before it failed; the extraction returns the result of the first strategy
\* that succeeds, and raises an error only when every strategy has failed.
C14_StrategiesInPriorityOrder ==
  /\ \A j \in DOMAIN e_log : e_log[j].index = j
  /\ \A j \in 1..(Len(e_log) - 1) : e_log[j].outcome = "threw"
  /\ e_pc = "strategy" => e_index = Len(e_log) + 1
  /\ e_pc = "returned" =>
       /\ e_log[Len(e_log)].outcome = "returned"
       /\ e_result = e_log[Len(e_log)].result
  /\ e_pc = "thrown" =>
       /\ Len(e_log) = NumStrategies
       /\ \A j \in DOMAIN e_log : e_log[j].outcome = "threw"

C14_Witness ==
  /\ e_pc = "returned"
  /\ Len(e_log) = 2
  /\ e_log[1].outcome = "threw"
  /\ e_result # <<>>

\* C15: two ingestion runs in flight never have the same temporary file path,
\* and a run parses the file it wrote itself: never a file another run wrote,
\* never a file another run has deleted.
C15_TempFilesArePrivate ==
  /\ \A r1, r2 \in Runs :
       (r1 # r2 /\ t_path[r1] # NoFile /\ t_path[r2] # NoFile)
          => t_path[r1] # t_path[r2]
  /\ \A r \in Runs : t_read[r] \in {0, r}

\* C16: at most one vector-store client is ever constructed, and all callers
\* of getPineconeClient get that one instance.
C16_OneClientInstance ==
  /\ c_instances <= 1
  /\ \A c1, c2 \in Callers :
       (c_got[c1] # 0 /\ c_got[c2] # 0) => c_got[c1] = c_got[c2]

\* C17: chunkDocuments and prepareDocument return no chunk for a page whose
\* text is empty or whitespace only.
C17_NoChunkFromBlankPage ==
  (k_pc = "returned" /\ k_fn \in {"chunkDocuments", "prepareDocument"}
     /\ IsBlank(k_text))
    => k_chunks = <<>>

\* C18: no chunk emitted by splitTextIntoChunks (either revision) is longer
\* than the maximum chunk size.
C18_ChunkWithinMaxSize ==
  k_fn \in {"chunkDocuments", "splitTextIntoChunks"} =>
    \A j \in DOMAIN k_chunks : Len(k_chunks[j]) <= k_chunkSize

\* C19: in splitTextIntoChunks of pinecone.ts the window after an emitted
\* chunk starts overlapSize characters before the end of that chunk.
C19_ConsecutiveChunksOverlap ==
  [][(ChunkStep /\ k_fn = "splitTextIntoChunks"
        /\ Len(k_chunks') > Len(k_chunks))
       => k_start' = k_windows'[Len(k_windows')].to - k_overlap]_vars

\* C20: the chunks splitTextIntoChunks (either revision) has emitted when it
\* returns are cut in text order, each is the trimmed text of its window,
\* and every character of the text that is not whitespace lies in a window.
C20_ChunksCoverText ==
  (k_pc = "returned" /\ k_fn \in {"chunkDocuments", "splitTextIntoChunks"}
     /\ k_overlap < k_chunkSize)
    => /\ Len(k_chunks) = Len(k_windows)
       /\ \A j \in DOMAIN k_chunks :
            k_chunks[j] = IF k_fn = "chunkDocuments"
                             /\ Len(k_text) <= k_chunkSize
                          THEN k_text
                          ELSE Trim(JsSlice(k_clean, k_windows[j].from,
                                            k_windows[j].to))
       /\ \A j \in 1..(Len(k_windows) - 1) :
            k_windows[j].from < k_windows[j + 1].from
       /\ \A c \in DOMAIN k_clean :
            k_clean[c] # " " =>
              \E j \in DOMAIN k_windows :
                 k_windows[j].from < c /\ c <= k_windows[j].to

C20_Witness ==
  /\ k_pc = "returned"
  /\ k_fn = "chunkDocuments"
  /\ Len(k_chunks) >= 2
  /\ \E j \in 1..(Len(k_windows) - 1) :
       k_windows[j + 1].from = k_windows[j].to + 1

\* C21: getEmbeddings given a text that is empty or whitespace only sends no
\* request and returns no vector: it fails with the error EmptyInput.
C21_EmptyInputFailsFast ==
  (IsWhitespace(g_text) /\ g_pc \notin {"off", "called"}) =>
     (g_pc = "thrown" /\ g_error = "EmptyInput")

\* C22: truncateStringByBytes(str, n) returns a prefix of str (whole code
\* points of str, nothing else) whose UTF-8 encoding has at most n bytes.
C22_TruncationKeepsCodePoints ==
  u_pc = "returned" =>
    /\ Len(u_result) <= Len(u_str)
    /\ u_result = SubSeq(u_str, 1, Len(u_result))
    /\ Len(Utf8Encode(u_result)) <= u_bytes

\* C23: every chat row refers to a file its user uploaded, a context is
\* retrieved only for a file the caller uploaded, and a message is stored
\* only in a chat of its author.
C23_OwnFilesOnly ==
  /\ \A c \in a_chats : [key |-> c.fileKey, owner |-> c.userId] \in a_files
  /\ \A s \in a_served : [key |-> s.fileKey, owner |-> s.user] \in a_files
  /\ \A m \in a_messages :
       \E c \in a_chats : c.id = m.chatId /\ c.userId = m.author

\* C24: when the query succeeds, the string getContext returns is built from
\* exactly the matches whose score is at least 0.75 (exactly 0.75 is kept, a
\* missing score counts as 0), each distinct text once at the place of its
\* first occurrence, joined with "\n---\n" and cut to 3000 characters: the
\* n-th piece of the result is the text of the n-th such match, a separator
\* stands between two pieces, and nothing else is in the result.
C24_ContextBuiltFromQualifying ==
  (q_pc = "returned" /\ q_caught = "none") =>
    LET scoreAt(j) == IF "score" \in DOMAIN q_matches[j]
                      THEN q_matches[j].score ELSE 0
        textAt(j) == q_matches[j].metadata.text
        kept == { j \in DOMAIN q_matches :
                    /\ scoreAt(j) >= 75
                    /\ \A l \in 1..(j - 1) :
                         scoreAt(l) >= 75 => textAt(l) # textAt(j) }
        nth(n) == CHOOSE j \in kept :
                    Cardinality({ l \in kept : l <= j }) = n
        whole == IF kept = {} THEN 0
                 ELSE 1000 * Cardinality(kept) + 5 * (Cardinality(kept) - 1)
    IN  /\ Len(q_result) = Min(whole, 3000)
        /\ \A p \in DOMAIN q_result :
             LET piece == ((p - 1) \div 1005) + 1
                 off   == (p - 1) % 1005
             IN  q_result[p] =
                   IF off < 1000 THEN ToString(textAt(nth(piece)))
                   ELSE <<"\n", "-", "-", "-", "\n">>[off - 999]

\* a query answered with a match of score exactly 0.75, a second match of
\* the same text and a match without a score: one text is returned
C24_Witness ==
  /\ q_pc = "returned"
  /\ q_caught = "none"
  /\ Len(q_matches) = 3
  /\ "score" \in DOMAIN q_matches[1] /\ q_matches[1].score = 75
  /\ "score" \notin DOMAIN q_matches[2]
  /\ "score" \in DOMAIN q_matches[3] /\ q_matches[3].score = 90
  /\ q_matches[3].metadata.text = q_matches[1].metadata.text
  /\ q_matches[2].metadata.text # q_matches[1].metadata.text
  /\ Len(q_result) = 1000

\* C25: getContext orders the matches that survive the filter and the
\* removal of duplicates by descending score before joining them, equal
\* scores keeping their order, whatever the order of the query's answer: the
\* n-th piece of the result is the text of the surviving match of rank n.
C25_OrderedByScore ==
  (q_pc = "returned" /\ q_caught = "none") =>
    LET scoreAt(j) == IF "score" \in DOMAIN q_matches[j]
                      THEN q_matches[j].score ELSE 0
        textAt(j) == q_matches[j].metadata.text
        kept == { j \in DOMAIN q_matches :
                    /\ scoreAt(j) >= 75
                    /\ \A l \in 1..(j - 1) :
                         scoreAt(l) >= 75 => textAt(l) # textAt(j) }
        rank(j) == 1 + Cardinality({ l \in kept :
                          \/ scoreAt(l) > scoreAt(j)
                          \/ scoreAt(l) = scoreAt(j) /\ l < j })
    IN  \A p \in DOMAIN q_result :
          LET piece == ((p - 1) \div 1005) + 1
              off   == (p - 1) % 1005
          IN  off < 1000 =>
                \E j \in kept : /\ rank(j) = piece
                                /\ q_result[p] = ToString(textAt(j))

\* C26: loadPDF always eventually returns or throws: if the parser never
\* completes, in loading the document or in extracting the text of a page,
\* the 30-second timeout makes loadPDF fail instead of waiting forever.
C26_LoadPDFEnds ==
  (l_pc \in {"load", "getPage", "getTextContent"})
    ~> (l_pc \in {"returned", "thrown"})

\* C27: for each ip, within one window (opened by an admitted request and
\* lasting 60 seconds) rateLimit admits at most 60 requests and answers every
\* further request of the window with 429; the first request after the
\* window has expired is admitted and opens a new window with count 1; the
\* requests of one ip never change the count of another.
C27_RateLimitPerIp ==
  [][ r_now' = r_now =>
        LET p == r_last'.ip
            w == r_window[p]
            live == w # NoWindow /\ r_now <= w.opened + WINDOW_MS
        IN  /\ r_window'[p].admitted <= 60
            /\ r_last'.status = 429 <=> (live /\ w.admitted = 60)
            /\ ~live => /\ r_last'.status = 200
                        /\ r_ipMap'[p].count = 1
                        /\ r_ipMap'[p].expires = r_now + 60000
            /\ r_ipMap'[p].count = r_window'[p].admitted
            /\ \A q \in RateIps \ {p} : r_ipMap'[q] = r_ipMap[q]
    ]_vars

\* one ip was refused after 60 admitted requests, the other opened a second
\* window after its first had expired
C27_Witness ==
  \E p, q \in RateIps :
    /\ p # q
    /\ r_last = [ip |-> p, status |-> 429]
    /\ r_window[p].admitted = 60
    /\ r_window[q].opened > 0
    /\ r_ipMap[q].count = 1

\* C28: a set on a full cache (size >= maxSize) evicts one entry, and that
\* entry is the oldest: no entry the cache held had a smaller write
\* timestamp, whatever calls of set, get, has, delete and cleanup came before.
C28_EvictsOldest ==
  (m_last.op = "set" /\ Len(m_last.before) >= maxSize) =>
    /\ Len(m_last.evicted) = 1
    /\ \A j \in DOMAIN m_last.before :
         m_last.evicted[1].timestamp <= m_last.before[j].timestamp

\* C29: if the download, the extraction, the chunking or an embedding call
\* of a run fails, the run has issued no deleteAll and no upsert, and the
\* namespace of the document is what it was before the run: a run that
\* throws one of these errors has made no vector-store call, the calls of a
\* run only grow, and the store changes only in a step that makes a call.
C29_FailureBeforeStoreIsTouched ==
  [][ /\ (pc' = "thrown" /\ error'.origin \in {"download", "loadpdf", "embedding"})
         => calls' = <<>>
      /\ (pc # "idle" /\ pc' # "idle") => Len(calls') >= Len(calls)
      /\ store' # store => Len(calls') = Len(calls) + 1
    ]_vars

\* a second run of a key fails at an embedding call after one chunk was
\* embedded, and the records of the first run are still in the namespace
C29_Witness ==
  /\ pc = "thrown"
  /\ error.origin = "embedding"
  /\ Len(vectors) >= 1
  /\ calls = <<>>
  /\ store[ns] # {}

\* C30: once the upstream stream has ended, with or without a line
\* "data: [DONE]", the stream returned by streamOpenAIChunks is eventually
\* closed or errored, so the consumer finishes.
C30_StreamEventuallyEnds ==
  (w_upstream \in {"ended", "failed"})
    ~> (w_state \in {"closed", "errored"} /\ w_sink \in {"closed", "aborted"})

====
